---- MODULE Spec2Model ----
(***************************************************************************)
(* Left-leaning red-black tree of mudlark/tree/llrb_tree (package          *)
(* llrb_tree): nodes, balancing primitives, insertion (filtering and       *)
(* duplicate-preserving), top-down deletion, Find and the Tree facade.     *)
(*                                                                         *)
(* A node is a record [item, left, right, red]; the absent link (Go nil)   *)
(* is Nil.  Child links are exclusively owned and every recursive call of  *)
(* the source stores the returned sub-tree root back into the parent link, *)
(* so the in-place pointer updates of the source are modelled by values.   *)
(* A nil-pointer dereference is a Go run-time panic; the operators return  *)
(* PANIC at exactly the dereferences the source performs on a nil link.    *)
(*                                                                         *)
(* Further down: the traversal goroutine of Tree.Iter and its channel;     *)
(* Tree.Copy over a heap of node cells, where two trees could share a      *)
(* node; and mudlark/set/heteroset: the comparator over reflect types and  *)
(* the functions of two Sets (Union, Intersection, Disjoint, Intersect).   *)
(* Then Set.Precedes, the lazy traversal behind Disjoint, Intersect and    *)
(* Subset, Remove and IterAsync; mudlark/set/bitset at a reduced integer   *)
(* width (locating a member, Add, Remove); mudlark/sort; and the           *)
(* tree-backed bitset, whose tree items are pointers to shared records.    *)
(***************************************************************************)
EXTENDS Integers, Sequences, FiniteSets, TLC

\* ------------------------------------------------------------------ bounds
\* Keys are 1..MaxKey; a duplicate-preserving tree is grown to at most
\* MaxCount nodes (a filtering tree holds at most MaxKey).
MaxKey == 5
MaxCount == 4

\* The insert-only runs that measure the depth use the keys 1..MaxDepthKey
\* (seven items are the fewest a degenerate tree needs to pass the bound).
MaxDepthKey == 7

\* The trees that are traversed hold the keys 1..MaxIterKey.
MaxIterKey == 2

\* The trees that are copied hold the keys 1..MaxCopyKey, and at most
\* MaxCells nodes are in use at a time.
MaxCopyKey == 2
MaxCells == 6

\* Package paths and type names are strings of at most MaxStrLen bytes out of
\* 1..MaxChar, and at most MaxDecl types share a path and a name.
MaxChar == 2
MaxStrLen == 2
MaxDecl == 2

\* The Sets hold Int and Real items of the values 1..MaxSetKey, at most
\* MaxCard each.
MaxSetKey == 2
MaxCard == 3

\* An int64 or uint64 is modelled with IntBits bits, and a chunk of the bitset
\* has 2^ChunkBits bits.
IntBits == 6
ChunkBits == 2

\* The members of the bitsets are the numbers -MaxMember..MaxMember.
MaxMember == 4

\* The slices that are sorted have at most MaxSortLen items of the keys
\* 1..MaxSortKey.
MaxSortKey == 2
MaxSortLen == 4

\* The tree-backed bitsets hold the bits 0..MaxBitNumber of the chunks with
\* the keys 0..MaxBitKey.
MaxBitKey == 1
MaxBitNumber == 1

\* An item carries the key the ordering looks at and a payload it ignores
\* ({key, value} look-up table use): two payloads tell an overwritten item
\* from a kept one.
Keys == 1..MaxKey
Vals == {"a", "b"}
Items == [key : Keys, val : Vals]

\* Item.Precedes of the test item types (Int: int(i) < int(other)), on the key.
Precedes(a, b) == a.key < b.key

\* "neither precedes the other"
Equal(a, b) == ~Precedes(a, b) /\ ~Precedes(b, a)

\* ------------------------------------------------------------------- nodes
Nil == [nil |-> TRUE]
PANIC == [panic |-> TRUE]

new_ll_rb_node(item) == [item |-> item, left |-> Nil, right |-> Nil, red |-> TRUE]

is_red(node) == node # Nil /\ node.red

flip_colours(node) ==
    IF node.left = Nil \/ node.right = Nil
    THEN PANIC                                  \* node.left.red / node.right.red
    ELSE [node EXCEPT !.red = ~@, !.left.red = ~@, !.right.red = ~@]

\* rotate_left with the wrong sub-tree handed over (node.right = tmp.right)
rotate_left_wrong_subtree(node) ==
    IF node.right = Nil
    THEN PANIC
    ELSE LET tmp == node.right
         IN  [tmp EXCEPT !.left = [node EXCEPT !.right = tmp.right, !.red = TRUE],
                         !.red = node.red]

rotate_left(node) ==
    IF node.right = Nil
    THEN PANIC                                  \* tmp.left with tmp == nil
    ELSE LET tmp == node.right
         IN  [tmp EXCEPT !.left = [node EXCEPT !.right = tmp.left, !.red = TRUE],
                         !.red = node.red]

\* rotate_right with the wrong sub-tree handed over (node.left = tmp.left)
rotate_right_wrong_subtree(node) ==
    IF node.left = Nil
    THEN PANIC
    ELSE LET tmp == node.left
         IN  [tmp EXCEPT !.right = [node EXCEPT !.left = tmp.left, !.red = TRUE],
                         !.red = node.red]

rotate_right(node) ==
    IF node.left = Nil
    THEN PANIC                                  \* tmp.right with tmp == nil
    ELSE LET tmp == node.left
         IN  [tmp EXCEPT !.right = [node EXCEPT !.left = tmp.right, !.red = TRUE],
                         !.red = node.red]

\* fix_up without its first step (a right-leaning red link is left alone)
fix_up_no_rotate_left(node) ==
    LET n2 == IF is_red(node.left) /\ is_red(node.left.left)
              THEN rotate_right(node) ELSE node
    IN  IF is_red(n2.left) /\ is_red(n2.right) THEN flip_colours(n2) ELSE n2

fix_up(node) ==
    LET n1 == IF is_red(node.right) /\ ~is_red(node.left)
              THEN rotate_left(node) ELSE node
        n2 == IF is_red(n1.left) /\ is_red(n1.left.left)
              THEN rotate_right(n1) ELSE n1
    IN  IF is_red(n2.left) /\ is_red(n2.right) THEN flip_colours(n2) ELSE n2

\* the filtering insert of mudlark/tree/llrb_tree/ll_rb_tree.go: an equal item
\* is left as it is stored (first write wins)
RECURSIVE insert_keeps_first(_, _)
insert_keeps_first(node, item) ==
    IF node = Nil
    THEN [node |-> new_ll_rb_node(item), inserted |-> TRUE]
    ELSE IF Precedes(item, node.item)
    THEN LET r == insert_keeps_first(node.left, item)
         IN  [node |-> fix_up([node EXCEPT !.left = r.node]), inserted |-> r.inserted]
    ELSE IF Precedes(node.item, item)
    THEN LET r == insert_keeps_first(node.right, item)
         IN  [node |-> fix_up([node EXCEPT !.right = r.node]), inserted |-> r.inserted]
    ELSE [node |-> fix_up(node), inserted |-> FALSE]

\* insert without the fix_up on the way back
RECURSIVE insert_no_fix_up(_, _)
insert_no_fix_up(node, item) ==
    IF node = Nil
    THEN [node |-> new_ll_rb_node(item), inserted |-> TRUE]
    ELSE IF Precedes(item, node.item)
    THEN LET r == insert_no_fix_up(node.left, item)
         IN  [node |-> [node EXCEPT !.left = r.node], inserted |-> r.inserted]
    ELSE IF Precedes(node.item, item)
    THEN LET r == insert_no_fix_up(node.right, item)
         IN  [node |-> [node EXCEPT !.right = r.node], inserted |-> r.inserted]
    ELSE [node |-> [node EXCEPT !.item = item], inserted |-> FALSE]

\* --------------------------------------------------------------- insertion
RECURSIVE insert(_, _)
insert(node, item) ==
    IF node = Nil
    THEN [node |-> new_ll_rb_node(item), inserted |-> TRUE]
    ELSE IF Precedes(item, node.item)
    THEN LET r == insert(node.left, item)
         IN  [node |-> fix_up([node EXCEPT !.left = r.node]), inserted |-> r.inserted]
    ELSE IF Precedes(node.item, item)
    THEN LET r == insert(node.right, item)
         IN  [node |-> fix_up([node EXCEPT !.right = r.node]), inserted |-> r.inserted]
    ELSE [node |-> fix_up([node EXCEPT !.item = item]), inserted |-> FALSE]

RECURSIVE insert_keep_duplicates_equal_left(_, _)
insert_keep_duplicates_equal_left(node, item) ==
    IF node = Nil
    THEN new_ll_rb_node(item)
    ELSE IF ~Precedes(node.item, item)
    THEN fix_up([node EXCEPT !.left = insert_keep_duplicates_equal_left(node.left, item)])
    ELSE fix_up([node EXCEPT !.right = insert_keep_duplicates_equal_left(node.right, item)])

RECURSIVE insert_keep_duplicates(_, _)
insert_keep_duplicates(node, item) ==
    IF node = Nil
    THEN new_ll_rb_node(item)
    ELSE IF Precedes(item, node.item)
    THEN fix_up([node EXCEPT !.left = insert_keep_duplicates(node.left, item)])
    ELSE fix_up([node EXCEPT !.right = insert_keep_duplicates(node.right, item)])

\* ---------------------------------------------------------------- deletion
move_red_left(node) ==
    LET n1 == flip_colours(node)
    IN  IF n1 = PANIC THEN PANIC
        ELSE IF is_red(n1.right.left)
        THEN flip_colours(rotate_left([n1 EXCEPT !.right = rotate_right(n1.right)]))
        ELSE n1

move_red_right(node) ==
    LET n1 == flip_colours(node)
    IN  IF n1 = PANIC THEN PANIC
        ELSE IF is_red(n1.left.left)
        THEN flip_colours(rotate_right(n1))
        ELSE n1

RECURSIVE delete_left_most(_)
delete_left_most(node) ==
    IF node = Nil THEN PANIC                    \* node.left with node == nil
    ELSE IF node.left = Nil THEN Nil
    ELSE LET n1 == IF ~is_red(node.left) /\ ~is_red(node.left.left)
                   THEN move_red_left(node) ELSE node
         IN  IF n1 = PANIC THEN PANIC
             ELSE LET l == delete_left_most(n1.left)
                  IN  IF l = PANIC THEN PANIC
                      ELSE fix_up([n1 EXCEPT !.left = l])

\* left_most without the loop: the right child itself is taken as successor
left_most_no_loop(node) == node

\* the loop "for left_most.left != nil" of delete
RECURSIVE left_most(_)
left_most(node) == IF node.left = Nil THEN node ELSE left_most(node.left)

RECURSIVE delete(_, _)
delete(node, item) ==
    IF node = Nil THEN PANIC                    \* node.item with node == nil
    ELSE IF Precedes(item, node.item)
    THEN IF node.left = Nil THEN PANIC          \* node.left.left with node.left == nil
         ELSE LET n1 == IF ~is_red(node.left) /\ ~is_red(node.left.left)
                        THEN move_red_left(node) ELSE node
              IN  IF n1 = PANIC THEN PANIC
                  ELSE LET r == delete(n1.left, item)
                       IN  IF r = PANIC THEN PANIC
                           ELSE [node |-> fix_up([n1 EXCEPT !.left = r.node]),
                                 deleted |-> r.deleted]
    ELSE LET n1 == IF is_red(node.left) THEN rotate_right(node) ELSE node
         IN  IF Equal(n1.item, item) /\ n1.right = Nil
             THEN [node |-> Nil, deleted |-> TRUE]
             ELSE IF n1.right = Nil THEN PANIC  \* node.right.left with node.right == nil
             ELSE LET n2 == IF ~is_red(n1.right) /\ ~is_red(n1.right.left)
                            THEN move_red_right(n1) ELSE n1
                  IN  IF n2 = PANIC THEN PANIC
                      ELSE IF Equal(n2.item, item)
                      THEN LET r == delete_left_most(n2.right)
                           IN  IF r = PANIC THEN PANIC
                               ELSE [node |-> fix_up([n2 EXCEPT
                                                        !.item = left_most(n2.right).item,
                                                        !.right = r]),
                                     deleted |-> TRUE]
                      ELSE LET r == delete(n2.right, item)
                           IN  IF r = PANIC THEN PANIC
                               ELSE [node |-> fix_up([n2 EXCEPT !.right = r.node]),
                                     deleted |-> r.deleted]

\* --------------------------------------------------------------- traversal
\* The items a traversal sends on its channel, in the order of the sends.
PRE_ORDER == 0
IN_ORDER == 1
POST_ORDER == 2
REVERSE_ORDER == 3

RECURSIVE iterate_preorder(_)
iterate_preorder(node) ==
    IF node = Nil THEN <<>>
    ELSE <<node.item>> \o iterate_preorder(node.left) \o iterate_preorder(node.right)

RECURSIVE iterate_inorder(_)
iterate_inorder(node) ==
    IF node = Nil THEN <<>>
    ELSE iterate_inorder(node.left) \o <<node.item>> \o iterate_inorder(node.right)

RECURSIVE iterate_postorder(_)
iterate_postorder(node) ==
    IF node = Nil THEN <<>>
    ELSE iterate_postorder(node.left) \o iterate_postorder(node.right) \o <<node.item>>

RECURSIVE iterate_reverseorder(_)
iterate_reverseorder(node) ==
    IF node = Nil THEN <<>>
    ELSE iterate_reverseorder(node.right) \o <<node.item>> \o iterate_reverseorder(node.left)

\* the sends of iterate(node, c, order) before its close(c)
iterate(node, order) ==
    CASE order = PRE_ORDER -> iterate_preorder(node)
      [] order = IN_ORDER -> iterate_inorder(node)
      [] order = POST_ORDER -> iterate_postorder(node)
      [] order = REVERSE_ORDER -> iterate_reverseorder(node)
      [] OTHER -> <<>>

\* -------------------------------------------------------------------- Find
\* The descent of Tree.Find; steps counts the nodes whose item is compared
\* (the "iterations" of the find variant of ll_rb_tree).
RECURSIVE find_from(_, _, _)
find_from(node, item, steps) ==
    IF node = Nil THEN [entry |-> Nil, found |-> FALSE, comparisons |-> steps]
    ELSE IF Precedes(item, node.item) THEN find_from(node.left, item, steps + 1)
    ELSE IF Precedes(node.item, item) THEN find_from(node.right, item, steps + 1)
    ELSE [entry |-> node.item, found |-> TRUE, comparisons |-> steps + 1]

\* Find with the emptiness test off by one
Find_off_by_one(r, c, item) ==
    IF c <= 1
    THEN [entry |-> Nil, found |-> FALSE, comparisons |-> 0]
    ELSE find_from(r, item, 0)

Find(r, c, item) ==
    IF c = 0
    THEN [entry |-> Nil, found |-> FALSE, comparisons |-> 0]
    ELSE find_from(r, item, 0)

\* ------------------------------------------------------------------- state
VARIABLES
    root,               \* Tree.root
    count,              \* Tree.count
    keep_duplicates,    \* Tree.keep_duplicates
    pc,                 \* "ready", or "panic" once a call has panicked
    last,               \* the last mutating call: operation, argument, whether an equal
                        \* item was stored and the count when it was made
    iter,               \* the traversal started by Tree.Iter: the producer goroutine,
                        \* its channel and the consumer ranging over it
    heap,               \* the ll_rb_node cells allocated by new(ll_rb_node), by address
    trees,              \* a Tree t and its copy c, their roots being addresses
    sets,               \* two heterogeneous Sets A and B, their roots being addresses
    out,                \* the last call of a function of two Sets and what it returned
    compared,           \* the last two items handed to compare_item, and the results
    located,            \* an integer handed to the bitset's location functions, and the results
    bset,               \* a bitset.Set: bitcount and the map bits
    recs,               \* the bitrecords allocated by the tree-backed bitset, by address
    bitsets,            \* a tree-backed bitset a and its copy b
    sorting             \* a call of SortSlice or SortChan: input, position, output

vars == <<root, count, keep_duplicates, pc, last, iter, heap, trees, sets, out, compared,
          located, bset, recs, bitsets, sorting>>

\* What the calls on the Tree itself leave alone.
others == <<iter, heap, trees, sets, out, compared, located, bset, recs, bitsets, sorting>>

NoIter == [none |-> TRUE]

NoTree == [none |-> TRUE]

NoTrees == [t |-> NoTree, c |-> NoTree, acted |-> "none"]

NoSets == [none |-> TRUE]

NoOut == [op |-> "none"]

NotCompared == [none |-> TRUE]

NotLocated == [none |-> TRUE]

NoBitSet == [none |-> TRUE]

NoBitsets == [none |-> TRUE]

NotSorting == [none |-> TRUE]

\* Nothing of the bitset or sort packages is in use.
IdleRest ==
    /\ located = NotLocated
    /\ bset = NoBitSet
    /\ recs = <<>>
    /\ bitsets = NoBitsets
    /\ sorting = NotSorting

Idle ==
    /\ iter = NoIter
    /\ heap = <<>>
    /\ trees = NoTrees
    /\ sets = NoSets
    /\ out = NoOut
    /\ compared = NotCompared
    /\ IdleRest

Has(item) == Find(root, count, item).found

\* Tree.Len (Len itself is the length of a sequence in TLA+)
TreeLen == count

NoCall == [op |-> "Make", item |-> Nil, present |-> FALSE, count |-> 0]

\* Make(filtered): tree.keep_duplicates = !filtered, root nil, count 0
Make(filtered) ==
    /\ root = Nil
    /\ count = 0
    /\ keep_duplicates = ~filtered
    /\ pc = "ready"
    /\ last = NoCall

Init == Idle /\ \E filtered \in BOOLEAN : Make(filtered)

Called(op, item) ==
    [op |-> op, item |-> item, present |-> Has(item), count |-> count]

\* Insert without the final "this.root.red = false"
Insert_root_not_blackened(item) ==
    /\ pc = "ready"
    /\ keep_duplicates => count < MaxCount
    /\ LET r == IF keep_duplicates
                THEN [node |-> insert_keep_duplicates(root, item), inserted |-> TRUE]
                ELSE insert(root, item)
       IN  /\ root' = r.node
           /\ count' = IF r.inserted THEN count + 1 ELSE count
    /\ last' = Called("Insert", item)
    /\ UNCHANGED <<keep_duplicates, pc>>
    /\ UNCHANGED others

\* Insert that counts every call, whatever insert reports
Insert_counts_every_call(item) ==
    /\ pc = "ready"
    /\ keep_duplicates => count < MaxCount
    /\ LET r == IF keep_duplicates
                THEN [node |-> insert_keep_duplicates(root, item), inserted |-> TRUE]
                ELSE insert(root, item)
       IN  /\ root' = [r.node EXCEPT !.red = FALSE]
           /\ count' = count + 1
    /\ last' = Called("Insert", item)
    /\ UNCHANGED <<keep_duplicates, pc>>
    /\ UNCHANGED others

Insert(item) ==
    /\ pc = "ready"
    /\ keep_duplicates => count < MaxCount
    /\ LET r == IF keep_duplicates
                THEN [node |-> insert_keep_duplicates(root, item), inserted |-> TRUE]
                ELSE insert(root, item)
       IN  /\ root' = [r.node EXCEPT !.red = FALSE]
           /\ count' = IF r.inserted THEN count + 1 ELSE count
    /\ last' = Called("Insert", item)
    /\ UNCHANGED <<keep_duplicates, pc>>
    /\ UNCHANGED others

Delete(item) ==
    /\ pc = "ready"
    /\ LET r == delete(root, item)
       IN  IF r = PANIC
           THEN /\ pc' = "panic"                \* inside delete: nothing assigned yet
                /\ UNCHANGED <<root, count>>
           ELSE /\ count' = IF r.deleted THEN count - 1 ELSE count
                /\ IF r.node = Nil
                   THEN /\ root' = Nil          \* this.root.red with this.root == nil
                        /\ pc' = "panic"
                   ELSE /\ root' = [r.node EXCEPT !.red = FALSE]
                        /\ pc' = pc
    /\ last' = Called("Delete", item)
    /\ UNCHANGED keep_duplicates
    /\ UNCHANGED others

Next ==
    \/ \E item \in Items : Insert(item)
    \/ \E item \in Items : Delete(item)

Spec == Init /\ [][Next]_vars

\* Insertions only, into a filtering tree, of the keys 1..MaxDepthKey in
\* every order (TestMakedepth_properties: sequential, reverse, random).
DepthItems == [key : 1..MaxDepthKey, val : {"a"}]

InitInserts == Idle /\ Make(TRUE)

SpecInserts == InitInserts /\ [][\E item \in DepthItems : Insert(item)]_vars

\* ---------------------------------------------------------------- Tree.Iter
\* Tree.Iter makes an unbuffered channel and starts "go iterate(root, c, order)".
\* The producer walks the tree and blocks in each "c <- node.item" until the
\* consumer receives; a send and its receive are one step.  sent is the number
\* of sends the producer has completed, received what the consumer was handed.
OrderSet == {PRE_ORDER, IN_ORDER, POST_ORDER, REVERSE_ORDER}

Iter(order) ==
    /\ pc = "ready"
    /\ iter = NoIter
    /\ iter' = [order |-> order, sent |-> 0, received |-> <<>>,
                closed |-> FALSE, done |-> FALSE]
    /\ UNCHANGED <<root, count, keep_duplicates, pc, last, heap, trees, sets, out, compared, located, bset, recs, bitsets, sorting>>

\* c <- node.item in the producer, item := <-c in the consumer
IterSend ==
    /\ iter # NoIter
    /\ ~iter.closed
    /\ LET s == iterate(root, iter.order)
       IN  /\ iter.sent < Len(s)
           /\ iter' = [iter EXCEPT !.sent = @ + 1,
                                   !.received = Append(@, s[iter.sent + 1])]
    /\ UNCHANGED <<root, count, keep_duplicates, pc, last, heap, trees, sets, out, compared, located, bset, recs, bitsets, sorting>>

\* close(c) once the walk has returned; the goroutine ends
IterClose ==
    /\ iter # NoIter
    /\ ~iter.closed
    /\ iter.sent = Len(iterate(root, iter.order))
    /\ iter' = [iter EXCEPT !.closed = TRUE]
    /\ UNCHANGED <<root, count, keep_duplicates, pc, last, heap, trees, sets, out, compared, located, bset, recs, bitsets, sorting>>

\* the consumer's range loop ends on the closed channel
IterRangeEnd ==
    /\ iter # NoIter
    /\ iter.closed
    /\ ~iter.done
    /\ iter' = [iter EXCEPT !.done = TRUE]
    /\ UNCHANGED <<root, count, keep_duplicates, pc, last, heap, trees, sets, out, compared, located, bset, recs, bitsets, sorting>>

\* Trees of the keys 1..MaxIterKey built by Insert and Delete, then one
\* traversal; the tree is not mutated while the traversal is in flight.
IterItems == [key : 1..MaxIterKey, val : {"a"}]

NextIter ==
    \/ iter = NoIter /\ \E item \in IterItems : Insert(item)
    \/ iter = NoIter /\ \E item \in IterItems : Delete(item)
    \/ \E order \in OrderSet : Iter(order)
    \/ IterSend
    \/ IterClose
    \/ IterRangeEnd

SpecIter == Init /\ [][NextIter]_vars

\* The scheduler runs a goroutine that can run, and the consumer keeps receiving.
SpecIterFair ==
    SpecIter /\ WF_vars(IterSend) /\ WF_vars(IterClose) /\ WF_vars(IterRangeEnd)

\* ---------------------------------------------------------------- Tree.Copy
\* Nodes are cells of the heap and links are addresses (0 is nil), so that two
\* trees can share a node.  Load(h, a) is the tree below address a, each node
\* carrying the address it lives at; the operators above update such nodes in
\* place and make new ones, which carry no address yet.
RECURSIVE Load(_, _)
Load(h, a) ==
    IF a = 0 THEN Nil
    ELSE [item |-> h[a].item, red |-> h[a].red,
          left |-> Load(h, h[a].left), right |-> Load(h, h[a].right), addr |-> a]

\* Writes the nodes of a tree back to the cells they live at and allocates a
\* cell for each new node; gives the heap and the address of the top node.
RECURSIVE Store(_, _)
Store(h, node) ==
    IF node = Nil THEN [heap |-> h, addr |-> 0]
    ELSE LET l == Store(h, node.left)
             r == Store(l.heap, node.right)
             cell == [item |-> node.item, red |-> node.red,
                      left |-> l.addr, right |-> r.addr]
         IN  IF "addr" \in DOMAIN node
             THEN [heap |-> [r.heap EXCEPT ![node.addr] = cell], addr |-> node.addr]
             ELSE [heap |-> Append(r.heap, cell), addr |-> Len(r.heap) + 1]

\* The addresses of the nodes below address a, top first.
RECURSIVE Reach(_, _)
Reach(h, a) ==
    IF a = 0 THEN <<>> ELSE <<a>> \o Reach(h, h[a].left) \o Reach(h, h[a].right)

\* The sequence s without the repetitions of an element.
RECURSIVE Dedupe(_)
Dedupe(s) ==
    IF s = <<>> THEN <<>>
    ELSE LET d == Dedupe(SubSeq(s, 1, Len(s) - 1))
         IN  IF \E i \in 1..Len(d) : d[i] = s[Len(s)] THEN d ELSE Append(d, s[Len(s)])

\* The garbage collector: the cells that none of the addresses roots reaches
\* are dropped.  The code never compares or prints an address, so the live
\* cells are numbered in the order the roots reach them; a cell that two of
\* them reach stays one cell.
RECURSIVE ReachAll(_, _)
ReachAll(h, roots) ==
    IF roots = <<>> THEN <<>> ELSE Reach(h, Head(roots)) \o ReachAll(h, Tail(roots))

Compact(h, roots) ==
    LET live == Dedupe(ReachAll(h, roots))
        to(a) == IF a = 0 THEN 0 ELSE CHOOSE i \in 1..Len(live) : live[i] = a
    IN  [heap |-> [i \in 1..Len(live) |->
                      [h[live[i]] EXCEPT !.left = to(@), !.right = to(@)]],
         roots |-> [i \in 1..Len(roots) |-> to(roots[i])]]

Collect(h, ts) ==
    LET gc == Compact(h, <<ts.t.root, IF ts.c = NoTree THEN 0 ELSE ts.c.root>>)
    IN  [heap |-> gc.heap,
         trees |-> [t |-> [ts.t EXCEPT !.root = gc.roots[1]],
                    c |-> IF ts.c = NoTree THEN NoTree ELSE [ts.c EXCEPT !.root = gc.roots[2]],
                    acted |-> ts.acted]]

\* copy that hands back the node itself instead of a clone
copy_shares_nodes(node) == node

\* copy: a clone is a new node
RECURSIVE copy(_)
copy(node) ==
    IF node = Nil THEN Nil
    ELSE [item |-> node.item, red |-> node.red,
          left |-> copy(node.left), right |-> copy(node.right)]

CopyItems == [key : 1..MaxCopyKey, val : {"a"}]

\* tree = new(Tree); tree.keep_duplicates = !filtered
MakeTree(filtered) == [root |-> 0, count |-> 0, keep_duplicates |-> ~filtered]

\* Tree.Insert on the tree which ("t" or "c")
InsertAt(which, item) ==
    /\ pc = "ready"
    /\ trees[which] # NoTree
    /\ Len(heap) < MaxCells
    /\ trees[which].keep_duplicates => trees[which].count < MaxCount
    /\ LET this == trees[which]
           node == Load(heap, this.root)
           r == IF this.keep_duplicates
                THEN [node |-> insert_keep_duplicates(node, item), inserted |-> TRUE]
                ELSE insert(node, item)
           st == Store(heap, [r.node EXCEPT !.red = FALSE])
           gc == Collect(st.heap, [trees EXCEPT
                     ![which].root = st.addr,
                     ![which].count = IF r.inserted THEN @ + 1 ELSE @,
                     !.acted = which])
       IN  /\ heap' = gc.heap
           /\ trees' = gc.trees
    /\ UNCHANGED <<root, count, keep_duplicates, pc, last, iter, sets, out, compared, located, bset, recs, bitsets, sorting>>

\* Tree.Delete on the tree which ("t" or "c")
DeleteAt(which, item) ==
    /\ pc = "ready"
    /\ trees[which] # NoTree
    /\ LET this == trees[which]
           r == delete(Load(heap, this.root), item)
       IN  IF r = PANIC
           THEN /\ pc' = "panic"
                /\ trees' = [trees EXCEPT !.acted = which]
                /\ UNCHANGED heap
           ELSE IF r.node = Nil
           THEN LET gc == Collect(heap, [trees EXCEPT
                              ![which].root = 0,
                              ![which].count = IF r.deleted THEN @ - 1 ELSE @,
                              !.acted = which])
                IN  /\ pc' = "panic"          \* this.root.red with this.root == nil
                    /\ heap' = gc.heap
                    /\ trees' = gc.trees
           ELSE LET st == Store(heap, [r.node EXCEPT !.red = FALSE])
                    gc == Collect(st.heap, [trees EXCEPT
                              ![which].root = st.addr,
                              ![which].count = IF r.deleted THEN @ - 1 ELSE @,
                              !.acted = which])
                IN  /\ pc' = pc
                    /\ heap' = gc.heap
                    /\ trees' = gc.trees
    /\ UNCHANGED <<root, count, keep_duplicates, last, iter, sets, out, compared, located, bset, recs, bitsets, sorting>>

\* c := t.Copy()
Copy ==
    /\ pc = "ready"
    /\ trees.c = NoTree
    /\ Len(heap) + trees.t.count <= MaxCells
    /\ LET this == trees.t
           tree == MakeTree(~this.keep_duplicates)
           st == Store(heap, copy(Load(heap, this.root)))
           gc == Collect(st.heap, [trees EXCEPT
                     !.c = [tree EXCEPT !.root = st.addr, !.count = this.count],
                     !.acted = "Copy"])
       IN  /\ heap' = gc.heap
           /\ trees' = gc.trees
    /\ UNCHANGED <<root, count, keep_duplicates, pc, last, iter, sets, out, compared, located, bset, recs, bitsets, sorting>>

InitCopy ==
    /\ Make(TRUE)
    /\ iter = NoIter
    /\ heap = <<>>
    /\ sets = NoSets
    /\ out = NoOut
    /\ compared = NotCompared
    /\ IdleRest
    /\ \E filtered \in BOOLEAN :
           trees = [t |-> MakeTree(filtered), c |-> NoTree, acted |-> "Make"]

NextCopy ==
    \/ \E which \in {"t", "c"}, item \in CopyItems : InsertAt(which, item)
    \/ \E which \in {"t", "c"}, item \in CopyItems : DeleteAt(which, item)
    \/ Copy

SpecCopy == InitCopy /\ [][NextCopy]_vars

\* ---------------------------------------------- heteroset: the comparator
\* A string is the sequence of its bytes.
Strings == UNION {[1..n -> 1..MaxChar] : n \in 0..MaxStrLen}

\* reflect.Type: what PkgPath() and Name() give, and decl, which tells apart
\* the types that share both (the unnamed types, such as pointer types, have
\* an empty path and an empty name; types declared in different functions can
\* share a name).  Two types are the same type when they are the same record.
TypeSet == [pkg : Strings, name : Strings, decl : 1..MaxDecl]

\* An item of a heterogeneous set: a value key of the type type.
Typeof(a) == a.type

min(a, b) == IF a < b THEN a ELSE b

\* the loop of cmp_string from index i on (indices start at 1 here)
RECURSIVE cmp_string_from(_, _, _)
cmp_string_from(a, b, i) ==
    IF i > min(Len(a), Len(b)) THEN Len(a) - Len(b)
    ELSE IF a[i] < b[i] THEN -1
    ELSE IF a[i] > b[i] THEN 1
    ELSE cmp_string_from(a, b, i + 1)

cmp_string(a, b) == cmp_string_from(a, b, 1)

cmp_type(a, b) ==
    LET ta == Typeof(a)
        tb == Typeof(b)
    IN  IF ta = tb THEN 0
        ELSE LET cp == cmp_string(ta.pkg, tb.pkg)
             IN  IF cp # 0 THEN cp ELSE cmp_string(ta.name, tb.name)

\* a.Precedes(other): every Precedes of the repository (Int, Real, *Set)
\* starts with other.(T), which panics when other is of another type.
Item_Precedes(a, other) ==
    IF Typeof(other) # Typeof(a) THEN PANIC ELSE [is |-> a.key < other.key]

\* this.compare_item(item) with this.item = this_item: [cmp |-> n], or PANIC
compare_item(this_item, item) ==
    LET ct == cmp_type(this_item, item)
    IN  IF ct # 0 THEN [cmp |-> ct]
        ELSE IF Item_Precedes(this_item, item) = PANIC THEN PANIC
        ELSE IF Item_Precedes(this_item, item).is THEN [cmp |-> -1]
        ELSE IF Item_Precedes(item, this_item).is THEN [cmp |-> 1]
        ELSE [cmp |-> 0]

\* node.compare_item(item) is called for the two items drawn
CompareItem ==
    /\ pc = "ready"
    /\ compared # NotCompared
    /\ ~compared.called
    /\ LET a == compared.a
           b == compared.b
       IN  /\ compared' = [a |-> a, b |-> b, called |-> TRUE,
                           ab |-> cmp_type(a, b), ba |-> cmp_type(b, a),
                           item |-> compare_item(a, b)]
           /\ pc' = IF compare_item(a, b) = PANIC THEN "panic" ELSE pc
    /\ UNCHANGED <<root, count, keep_duplicates, last, iter, heap, trees, sets, out, located, bset, recs, bitsets, sorting>>

\* Two items of any two types.
InitCompare ==
    /\ Make(TRUE)
    /\ iter = NoIter
    /\ heap = <<>>
    /\ trees = NoTrees
    /\ sets = NoSets
    /\ out = NoOut
    /\ IdleRest
    /\ \E ta, tb \in TypeSet :
           compared = [a |-> [type |-> ta, key |-> 1], b |-> [type |-> tb, key |-> 1],
                       called |-> FALSE]

NextCompare == CompareItem

SpecCompare == InitCompare /\ [][NextCompare]_vars

\* --------------------------------------------------- heteroset: the Sets
\* The item types of the tests, both declared in package "heteroset" (the
\* strings are their ASCII bytes).
IntType == [pkg |-> <<104, 101, 116, 101, 114, 111, 115, 101, 116>>,
        name |-> <<73, 110, 116>>, decl |-> 1]

RealType == [pkg |-> <<104, 101, 116, 101, 114, 111, 115, 101, 116>>,
         name |-> <<82, 101, 97, 108>>, decl |-> 1]

SetItems == [type : {IntType, RealType}, key : 1..MaxSetKey]

\* insert of heteroset.go: [node, inserted], or PANIC
RECURSIVE set_insert(_, _)
set_insert(node, item) ==
    IF node = Nil THEN [node |-> new_ll_rb_node(item), inserted |-> TRUE]
    ELSE LET c == compare_item(node.item, item)
         IN  IF c = PANIC THEN PANIC
             ELSE IF c.cmp > 0
             THEN LET r == set_insert(node.left, item)
                  IN  IF r = PANIC THEN PANIC
                      ELSE [node |-> fix_up([node EXCEPT !.left = r.node]),
                            inserted |-> r.inserted]
             ELSE IF c.cmp < 0
             THEN LET r == set_insert(node.right, item)
                  IN  IF r = PANIC THEN PANIC
                      ELSE [node |-> fix_up([node EXCEPT !.right = r.node]),
                            inserted |-> r.inserted]
             ELSE [node |-> fix_up([node EXCEPT !.item = item]), inserted |-> FALSE]

\* New()
New == [root |-> 0, count |-> 0]

Set_Cardinality(this) == this.count

\* the loop of Set.Find from node on
RECURSIVE set_find_from(_, _)
set_find_from(node, item) ==
    IF node = Nil THEN [instance |-> Nil, found |-> FALSE]
    ELSE LET c == compare_item(node.item, item)
         IN  IF c = PANIC THEN PANIC
             ELSE IF c.cmp > 0 THEN set_find_from(node.left, item)
             ELSE IF c.cmp < 0 THEN set_find_from(node.right, item)
             ELSE [instance |-> node.item, found |-> TRUE]

\* this.Find(item) for the Set this in the heap h
Set_Find(h, this, item) ==
    IF this.count = 0 THEN [instance |-> Nil, found |-> FALSE]
    ELSE set_find_from(Load(h, this.root), item)

\* this.Has(item): [has |-> found], or PANIC
Set_Has(h, this, item) ==
    LET f == Set_Find(h, this, item)
    IN  IF f = PANIC THEN PANIC ELSE [has |-> f.found]

\* Add that counts every call, whatever insert reports
Set_Add_counts_every_call(h, this, item) ==
    LET r == set_insert(Load(h, this.root), item)
    IN  IF r = PANIC THEN PANIC
        ELSE LET st == Store(h, [r.node EXCEPT !.red = FALSE])
             IN  [heap |-> st.heap, set |-> [root |-> st.addr, count |-> this.count + 1]]

\* this.Add(item): the heap and the Set afterwards, or PANIC
Set_Add(h, this, item) ==
    LET r == set_insert(Load(h, this.root), item)
    IN  IF r = PANIC THEN PANIC
        ELSE LET st == Store(h, [r.node EXCEPT !.red = FALSE])
             IN  [heap |-> st.heap,
                  set |-> [root |-> st.addr,
                           count |-> IF r.inserted THEN this.count + 1 ELSE this.count]]

\* Copy whose set.root is this.root itself
Set_Copy_shares_root(h, this) == [heap |-> h, set |-> this]

\* this.Copy(): the heap and the new Set
Set_Copy(h, this) ==
    LET st == Store(h, copy(Load(h, this.root)))
    IN  [heap |-> st.heap, set |-> [root |-> st.addr, count |-> this.count]]

\* the items this.Iter() delivers (iterate of heteroset.go is in-order only)
Set_Iter(h, this) == iterate_inorder(Load(h, this.root))

in_size_order(setA, setB) ==
    IF Set_Cardinality(setA) < Set_Cardinality(setB)
    THEN [smallest |-> setA, other |-> setB]
    ELSE [smallest |-> setB, other |-> setA]

\* the loop of Disjoint from the i-th item of smallest on
RECURSIVE Disjoint_from(_, _, _, _)
Disjoint_from(h, s, other, i) ==
    IF i > Len(s) THEN [is |-> TRUE]
    ELSE LET f == Set_Has(h, other, s[i])
         IN  IF f = PANIC THEN PANIC
             ELSE IF f.has THEN [is |-> FALSE]
             ELSE Disjoint_from(h, s, other, i + 1)

\* Disjoint that looks at the first item of the smallest set only
Disjoint_first_item_only(h, setA, setB) ==
    LET o == in_size_order(setA, setB)
        s == Set_Iter(h, o.smallest)
    IN  Disjoint_from(h, SubSeq(s, 1, min(1, Len(s))), o.other, 1)

Disjoint(h, setA, setB) ==
    LET o == in_size_order(setA, setB)
    IN  Disjoint_from(h, Set_Iter(h, o.smallest), o.other, 1)

\* the loop of Intersect from the i-th item of smallest on
RECURSIVE Intersect_from(_, _, _, _)
Intersect_from(h, s, other, i) ==
    IF i > Len(s) THEN [is |-> FALSE]
    ELSE LET f == Set_Has(h, other, s[i])
         IN  IF f = PANIC THEN PANIC
             ELSE IF f.has THEN [is |-> TRUE]
             ELSE Intersect_from(h, s, other, i + 1)

Intersect(h, setA, setB) ==
    LET o == in_size_order(setA, setB)
    IN  Intersect_from(h, Set_Iter(h, o.smallest), o.other, 1)

\* the loop of Union from the i-th item of smallest on
RECURSIVE Union_from(_, _, _, _)
Union_from(h, set, s, i) ==
    IF i > Len(s) THEN [heap |-> h, set |-> set]
    ELSE LET r == Set_Add(h, set, s[i])
         IN  IF r = PANIC THEN PANIC ELSE Union_from(r.heap, r.set, s, i + 1)

\* Union(setA, setB): the heap and the new Set, or PANIC
Union(h, setA, setB) ==
    LET o == in_size_order(setA, setB)
        cp == Set_Copy(h, o.other)
    IN  Union_from(cp.heap, cp.set, Set_Iter(h, o.smallest), 1)

\* the loop of Intersection from the i-th item of smallest on
RECURSIVE Intersection_from(_, _, _, _, _)
Intersection_from(h, set, s, other, i) ==
    IF i > Len(s) THEN [heap |-> h, set |-> set]
    ELSE LET f == Set_Has(h, other, s[i])
         IN  IF f = PANIC THEN PANIC
             ELSE IF f.has
             THEN LET r == Set_Add(h, set, s[i])
                  IN  IF r = PANIC THEN PANIC
                      ELSE Intersection_from(r.heap, r.set, s, other, i + 1)
             ELSE Intersection_from(h, set, s, other, i + 1)

\* Intersection(setA, setB): the heap and the new Set, or PANIC
Intersection(h, setA, setB) ==
    LET o == in_size_order(setA, setB)
    IN  Intersection_from(h, New, Set_Iter(h, o.smallest), o.other, 1)

\* The heap and the Sets A, B and R (the Set the last call returned, if any)
\* after the garbage collector has run.
CollectSets(h, ss) ==
    LET gc == Compact(h, <<ss.A.root, ss.B.root, ss.R.root>>)
    IN  [heap |-> gc.heap,
         sets |-> [A |-> [ss.A EXCEPT !.root = gc.roots[1]],
                   B |-> [ss.B EXCEPT !.root = gc.roots[2]],
                   R |-> [ss.R EXCEPT !.root = gc.roots[3]]]]

\* sets[which].Add(item); what an earlier call returned is dropped
SetAdd(which, item) ==
    /\ pc = "ready"
    /\ Set_Cardinality(sets[which]) < MaxCard
    /\ LET r == Set_Add(heap, sets[which], item)
       IN  IF r = PANIC
           THEN /\ pc' = "panic"
                /\ UNCHANGED <<heap, sets>>
           ELSE LET gc == CollectSets(r.heap, [sets EXCEPT ![which] = r.set, !.R = New])
                IN  /\ pc' = pc
                    /\ heap' = gc.heap
                    /\ sets' = gc.sets
    /\ out' = [op |-> "Add"]
    /\ UNCHANGED <<root, count, keep_duplicates, last, iter, trees, compared, located, bset, recs, bitsets, sorting>>

\* A call that returns a Set: the Set is kept as R.
Returned(op, r) ==
    /\ pc = "ready"
    /\ IF r = PANIC
       THEN /\ pc' = "panic"
            /\ UNCHANGED <<heap, sets>>
       ELSE LET gc == CollectSets(r.heap, [sets EXCEPT !.R = r.set])
            IN  /\ pc' = pc
                /\ heap' = gc.heap
                /\ sets' = gc.sets
    /\ out' = [op |-> op]
    /\ UNCHANGED <<root, count, keep_duplicates, last, iter, trees, compared, located, bset, recs, bitsets, sorting>>

\* A call that returns a bool.
Answered(op, r) ==
    /\ pc = "ready"
    /\ pc' = IF r = PANIC THEN "panic" ELSE pc
    /\ out' = IF r = PANIC THEN [op |-> op] ELSE [op |-> op, is |-> r.is]
    /\ LET gc == CollectSets(heap, [sets EXCEPT !.R = New])
       IN  /\ heap' = gc.heap
           /\ sets' = gc.sets
    /\ UNCHANGED <<root, count, keep_duplicates, last, iter, trees, compared, located, bset, recs, bitsets, sorting>>

UnionCall == Returned("Union", Union(heap, sets.A, sets.B))

IntersectionCall == Returned("Intersection", Intersection(heap, sets.A, sets.B))

DisjointCall == Answered("Disjoint", Disjoint(heap, sets.A, sets.B))

IntersectCall == Answered("Intersect", Intersect(heap, sets.A, sets.B))

\* setA := New(); setB := New()
InitSets ==
    /\ Make(TRUE)
    /\ iter = NoIter
    /\ heap = <<>>
    /\ trees = NoTrees
    /\ sets = [A |-> New, B |-> New, R |-> New]
    /\ out = NoOut
    /\ compared = NotCompared
    /\ IdleRest

\* The two Sets are filled first; then the functions of two Sets are called.
NextSets ==
    \/ out.op \in {"none", "Add"} /\
           \E which \in {"A", "B"}, item \in SetItems : SetAdd(which, item)
    \/ UnionCall
    \/ IntersectionCall
    \/ DisjointCall
    \/ IntersectCall

SpecSets == InitSets /\ [][NextSets]_vars

\* ---------------------------------------------------------------- channels
\* A buffered channel: the items in its buffer, whether it is closed, and
\* whether a send found the buffer full (with no receiver, the sender blocks
\* there for good).
make_chan(capacity) ==
    [capacity |-> capacity, buffer |-> <<>>, closed |-> FALSE, blocked |-> FALSE]

chan_send(channel, item) ==
    IF channel.blocked THEN channel
    ELSE IF Len(channel.buffer) < channel.capacity
    THEN [channel EXCEPT !.buffer = Append(@, item)]
    ELSE [channel EXCEPT !.blocked = TRUE]

RECURSIVE send_all(_, _)
send_all(channel, items) ==
    IF items = <<>> THEN channel
    ELSE send_all(chan_send(channel, Head(items)), Tail(items))

\* close(channel) is reached when no send blocked
chan_close(channel) ==
    IF channel.blocked THEN channel ELSE [channel EXCEPT !.closed = TRUE]

\* ----------------------------------------------------- heteroset: Precedes
\* The loop of Set.Precedes from the i-th receive on: s and o are the items
\* the two iterators deliver; a receive past the end finds the channel closed
\* (ok is false).
RECURSIVE Set_Precedes_from(_, _, _)
Set_Precedes_from(s, o, i) ==
    LET this_ok == i <= Len(s)
        other_ok == i <= Len(o)
    IN  IF ~this_ok THEN [is |-> ~other_ok]
        ELSE IF ~other_ok THEN [is |-> FALSE]
        ELSE LET ct == cmp_type(s[i], o[i])
             IN  IF ct # 0 THEN [is |-> ct < 0]
                 ELSE IF Item_Precedes(s[i], o[i]) = PANIC THEN PANIC
                 ELSE IF Item_Precedes(s[i], o[i]).is THEN [is |-> TRUE]
                 ELSE IF Item_Precedes(o[i], s[i]).is THEN [is |-> FALSE]
                 ELSE Set_Precedes_from(s, o, i + 1)

\* this.Precedes(other): [is |-> b], or PANIC
Set_Precedes(h, this, other) ==
    Set_Precedes_from(Set_Iter(h, this), Set_Iter(h, other), 1)

PrecedesCall == Answered("Precedes", Set_Precedes(heap, sets.A, sets.B))

\* The two Sets are filled first; then one is asked whether it precedes the
\* other.
NextPrecedes ==
    \/ out.op \in {"none", "Add"} /\
           \E which \in {"A", "B"}, item \in SetItems : SetAdd(which, item)
    \/ PrecedesCall

SpecPrecedes == InitSets /\ [][NextPrecedes]_vars

\* ------------------------------------------- heteroset: the lazy traversal
\* Disjoint, Intersect and Subset range over this.Iter(): a goroutine that
\* walks the tree and sends every item down a channel, and closes the channel
\* after the walk.  iter.sent counts the send statements the goroutine has
\* arrived at and iter.received the items the range loop has taken; a send
\* completes when its item is taken by the receiver or fits into the buffer.

\* c := make(chan Item) of this.Iter(): no buffer
Iter_chan_buffered(this) == make_chan(Set_Cardinality(this))

Iter_chan(this) == make_chan(0)

SetFunctions == {"Disjoint", "Intersect", "Subset"}

\* the Set the function ranges over, and the Set it looks the items up in
ranged(fn, setA, setB) ==
    IF fn = "Subset" THEN [smallest |-> setA, other |-> setB]
    ELSE in_size_order(setA, setB)

\* what the function returns inside the loop when other.Has(item) is has:
\* [is |-> b], or Nil when the loop goes on
loop_body(fn, has) ==
    IF fn = "Disjoint" THEN (IF has THEN [is |-> FALSE] ELSE Nil)
    ELSE IF fn = "Intersect" THEN (IF has THEN [is |-> TRUE] ELSE Nil)
    ELSE (IF ~has THEN [is |-> FALSE] ELSE Nil)

\* what the function returns after the loop
after_loop(fn) == [is |-> fn # "Intersect"]

\* the call, up to the first receive
SetIterStart(fn) ==
    /\ pc = "ready"
    /\ iter = NoIter
    /\ out.op \in {"none", "Add"}
    /\ IF fn = "Subset" /\ Set_Cardinality(sets.A) > Set_Cardinality(sets.B)
       THEN /\ out' = [op |-> fn, is |-> FALSE]
            /\ iter' = iter
       ELSE LET o == ranged(fn, sets.A, sets.B)
            IN  /\ out' = [op |-> fn]
                /\ iter' = [fn |-> fn, items |-> Set_Iter(heap, o.smallest),
                            other |-> o.other,
                            capacity |-> Iter_chan(o.smallest).capacity,
                            sent |-> 0, received |-> 0,
                            closed |-> FALSE, returned |-> FALSE]
    /\ UNCHANGED <<root, count, keep_duplicates, pc, last, heap, trees, sets,
                   compared, located, bset, recs, bitsets, sorting>>

\* the goroutine arrives at c <- node.item (its earlier send has completed)
SetIterSend ==
    /\ iter # NoIter
    /\ ~iter.closed
    /\ iter.sent < Len(iter.items)
    /\ iter.sent <= iter.received + iter.capacity
    /\ iter' = [iter EXCEPT !.sent = @ + 1]
    /\ UNCHANGED <<root, count, keep_duplicates, pc, last, heap, trees, sets, out,
                   compared, located, bset, recs, bitsets, sorting>>

\* item := <-c in the range loop, and the body of the loop
SetIterReceive ==
    /\ pc = "ready"
    /\ iter # NoIter
    /\ ~iter.returned
    /\ iter.received < iter.sent
    /\ LET f == Set_Has(heap, iter.other, iter.items[iter.received + 1])
       IN  IF f = PANIC
           THEN /\ pc' = "panic"
                /\ iter' = [iter EXCEPT !.received = @ + 1]
                /\ out' = out
           ELSE LET r == loop_body(iter.fn, f.has)
                IN  /\ pc' = pc
                    /\ iter' = [iter EXCEPT !.received = @ + 1,
                                            !.returned = r # Nil]
                    /\ out' = IF r = Nil THEN out ELSE [op |-> iter.fn, is |-> r.is]
    /\ UNCHANGED <<root, count, keep_duplicates, last, heap, trees, sets,
                   compared, located, bset, recs, bitsets, sorting>>

\* close(c) after the walk (the last send has completed)
SetIterClose ==
    /\ iter # NoIter
    /\ ~iter.closed
    /\ iter.sent = Len(iter.items)
    /\ iter.sent <= iter.received + iter.capacity
    /\ iter' = [iter EXCEPT !.closed = TRUE]
    /\ UNCHANGED <<root, count, keep_duplicates, pc, last, heap, trees, sets, out,
                   compared, located, bset, recs, bitsets, sorting>>

\* the range loop ends on the closed and drained channel
SetIterEnd ==
    /\ pc = "ready"
    /\ iter # NoIter
    /\ ~iter.returned
    /\ iter.closed
    /\ iter.received = iter.sent
    /\ iter' = [iter EXCEPT !.returned = TRUE]
    /\ out' = [op |-> iter.fn, is |-> after_loop(iter.fn).is]
    /\ UNCHANGED <<root, count, keep_duplicates, pc, last, heap, trees, sets,
                   compared, located, bset, recs, bitsets, sorting>>

\* The two Sets are filled first; then one of the functions is called.
NextSetIter ==
    \/ out.op \in {"none", "Add"} /\ iter = NoIter /\
           \E which \in {"A", "B"}, item \in SetItems : SetAdd(which, item)
    \/ \E fn \in SetFunctions : SetIterStart(fn)
    \/ SetIterSend
    \/ SetIterReceive
    \/ SetIterClose
    \/ SetIterEnd

SpecSetIter == InitSets /\ [][NextSetIter]_vars

\* ------------------------------------------- heteroset: Remove, IterAsync
\* delete of heteroset.go: [node, deleted], or PANIC
RECURSIVE set_delete(_, _)
set_delete(node, item) ==
    IF node = Nil THEN PANIC                    \* this.item with this == nil
    ELSE LET c == compare_item(node.item, item)
         IN  IF c = PANIC THEN PANIC
             ELSE IF c.cmp > 0
             THEN IF node.left = Nil THEN PANIC \* node.left.left with node.left == nil
                  ELSE LET n1 == IF ~is_red(node.left) /\ ~is_red(node.left.left)
                                 THEN move_red_left(node) ELSE node
                       IN  IF n1 = PANIC THEN PANIC
                           ELSE LET r == set_delete(n1.left, item)
                                IN  IF r = PANIC THEN PANIC
                                    ELSE [node |-> fix_up([n1 EXCEPT !.left = r.node]),
                                          deleted |-> r.deleted]
             ELSE LET n1 == IF is_red(node.left) THEN rotate_right(node) ELSE node
                      c1 == compare_item(n1.item, item)
                  IN  IF c1 = PANIC THEN PANIC
                      ELSE IF c1.cmp = 0 /\ n1.right = Nil
                      THEN [node |-> Nil, deleted |-> TRUE]
                      ELSE IF n1.right = Nil THEN PANIC   \* node.right.left
                      ELSE LET n2 == IF ~is_red(n1.right) /\ ~is_red(n1.right.left)
                                     THEN move_red_right(n1) ELSE n1
                           IN  IF n2 = PANIC THEN PANIC
                               ELSE IF compare_item(n2.item, item) = PANIC THEN PANIC
                               ELSE IF compare_item(n2.item, item).cmp = 0
                               THEN LET r == delete_left_most(n2.right)
                                    IN  IF r = PANIC THEN PANIC
                                        ELSE [node |-> fix_up([n2 EXCEPT
                                                  !.item = left_most(n2.right).item,
                                                  !.right = r]),
                                              deleted |-> TRUE]
                               ELSE LET r == set_delete(n2.right, item)
                                    IN  IF r = PANIC THEN PANIC
                                        ELSE [node |-> fix_up([n2 EXCEPT !.right = r.node]),
                                              deleted |-> r.deleted]

\* this.Remove(item): the heap and the Set afterwards, or PANIC (in delete, or
\* at this.root.red = false when no root is left)
Set_Remove(h, this, item) ==
    LET r == set_delete(Load(h, this.root), item)
    IN  IF r = PANIC THEN PANIC
        ELSE IF r.node = Nil THEN PANIC
        ELSE LET st == Store(h, [r.node EXCEPT !.red = FALSE])
             IN  [heap |-> st.heap,
                  set |-> [root |-> st.addr,
                           count |-> IF r.deleted THEN this.count - 1 ELSE this.count]]

\* IterAsync over a channel without a buffer
Set_IterAsync_unbuffered(h, this) ==
    chan_close(send_all(make_chan(0), iterate_inorder(Load(h, this.root))))

\* this.IterAsync(): the channel when iterate has sent every item and closed
\* it, or the channel with the send that blocks
Set_IterAsync(h, this) ==
    chan_close(send_all(make_chan(this.count), iterate_inorder(Load(h, this.root))))

\* sets[which].Remove(item)
SetRemove(which, item) ==
    /\ pc = "ready"
    /\ LET r == Set_Remove(heap, sets[which], item)
       IN  IF r = PANIC
           THEN /\ pc' = "panic"
                /\ UNCHANGED <<heap, sets>>
           ELSE LET gc == CollectSets(r.heap, [sets EXCEPT ![which] = r.set, !.R = New])
                IN  /\ pc' = pc
                    /\ heap' = gc.heap
                    /\ sets' = gc.sets
    /\ out' = [op |-> "Remove"]
    /\ UNCHANGED <<root, count, keep_duplicates, last, iter, trees, compared, located,
                   bset, recs, bitsets, sorting>>

\* c := sets.A.IterAsync(); out.after is the call made before
IterAsyncCall ==
    /\ pc = "ready"
    /\ LET c == Set_IterAsync(heap, sets.A)
       IN  /\ out' = [op |-> "IterAsync", channel |-> c, after |-> out.op]
           /\ pc' = IF c.blocked THEN "blocked" ELSE pc
    /\ UNCHANGED <<root, count, keep_duplicates, last, iter, heap, trees, sets, compared,
                   located, bset, recs, bitsets, sorting>>

\* ------------------------------------------------ bitset: locating a member
\* The machine integers are modelled at a reduced width: int64 and uint64 have
\* IntBits bits, and a bitchunk (a uint) has 2^ChunkBits bits, so that
\* bitchunkSZ, the number of bits of a chunk, stays a power of two as in the
\* source (32 or 64).  Arithmetic wraps as two's complement does.
IntSZ == 2 ^ IntBits

\* the values of an int64 and of a uint64
Int64 == (-(IntSZ \div 2))..((IntSZ \div 2) - 1)
Uint64 == 0..(IntSZ - 1)

\* conversion to int64 and to uint64 (wrap-around)
int64(n) == ((n + (IntSZ \div 2)) % IntSZ) - (IntSZ \div 2)
uint64(n) == n % IntSZ

bitchunkSZ == 2 ^ ChunkBits

\* conversion to uint, the type under bitchunk (bitchunkSZ bits wide)
uint(n) == n % (2 ^ bitchunkSZ)

\* Go's integer division truncates towards zero, and the remainder has the
\* sign of the dividend.
quo(a, b) == IF a >= 0 THEN a \div b ELSE -((-a) \div b)
rem(a, b) == a - (b * quo(a, b))

\* 1 << n on a bitchunk: a shift by the width or more leaves no bit set.
shift_one(n) == IF n >= bitchunkSZ THEN 0 ELSE 2 ^ n

ubitlocation(bit) ==
    [key |-> int64(bit \div uint64(bitchunkSZ)),
     mask |-> shift_one(bit % uint64(bitchunkSZ))]

sbitlocation_no_decrement(bit) ==
    LET key == int64(quo(bit, int64(bitchunkSZ)))
    IN  IF bit < 0
        THEN [key |-> key,
              mask |-> shift_one(uint(rem(int64(-bit), int64(bitchunkSZ))))]
        ELSE [key |-> key,
              mask |-> shift_one(uint(rem(bit, int64(bitchunkSZ))))]

sbitlocation_mask_not_negated(bit) ==
    LET key == int64(quo(bit, int64(bitchunkSZ)))
    IN  IF bit < 0
        THEN [key |-> int64(key - 1),
              mask |-> shift_one(uint(rem(bit, int64(bitchunkSZ))))]
        ELSE [key |-> key,
              mask |-> shift_one(uint(rem(bit, int64(bitchunkSZ))))]

sbitlocation(bit) ==
    LET key == int64(quo(bit, int64(bitchunkSZ)))
    IN  IF bit < 0
        THEN [key |-> int64(key - 1),
              mask |-> shift_one(uint(rem(int64(-bit), int64(bitchunkSZ))))]
        ELSE [key |-> key,
              mask |-> shift_one(uint(rem(bit, int64(bitchunkSZ))))]

\* A member is an integer of a signed or of an unsigned type.
ibitlocation(member) ==
    IF member.signed THEN sbitlocation(member.v) ELSE ubitlocation(member.v)

\* The member a bit stands for, with its dynamic type.
imemberval(key, bitn) ==
    IF key < 0
    THEN [type |-> "int64", val |-> int64((int64(key + 1) * int64(bitchunkSZ)) - bitn)]
    ELSE [type |-> "uint64", val |-> uint64((uint64(key) * uint64(bitchunkSZ)) + bitn)]

RECURSIVE bitcount(_)
bitcount(chunk) ==
    IF chunk = 0 THEN 0 ELSE (chunk % 2) + bitcount(chunk \div 2)

\* getbits: the numbers of the bits set in chunk, lowest first (bit counts
\* the shifts made so far).
RECURSIVE getbits_from(_, _)
getbits_from(chunk, bit) ==
    IF chunk = 0 THEN <<>>
    ELSE (IF chunk % 2 = 1 THEN <<bit>> ELSE <<>>) \o getbits_from(chunk \div 2, bit + 1)

getbits(chunk) == getbits_from(chunk, 0)

NoMember == [type |-> "none", val |-> 0]

\* The key mapping tests: locate the number, then decode bit getbits(mask)[0]
\* (indexing an empty slice panics).
Locate ==
    /\ located # NotLocated
    /\ ~located.called
    /\ LET loc == ibitlocation([signed |-> located.signed, v |-> located.v])
           bits == getbits(loc.mask)
       IN  /\ located' = [located EXCEPT !.called = TRUE, !.key = loc.key,
                                         !.mask = loc.mask,
                                         !.back = IF bits = <<>> THEN NoMember
                                                  ELSE imemberval(loc.key, bits[1])]
           /\ pc' = IF bits = <<>> THEN "panic" ELSE pc
    /\ UNCHANGED <<root, count, keep_duplicates, last, iter, heap, trees, sets, out,
                   compared, bset, recs, bitsets, sorting>>

\* Any int64 or uint64.
InitLocate ==
    /\ Make(TRUE)
    /\ iter = NoIter
    /\ heap = <<>>
    /\ trees = NoTrees
    /\ sets = NoSets
    /\ out = NoOut
    /\ compared = NotCompared
    /\ bset = NoBitSet
    /\ recs = <<>>
    /\ bitsets = NoBitsets
    /\ sorting = NotSorting
    /\ \E signed \in BOOLEAN :
           \E v \in (IF signed THEN Int64 ELSE Uint64) :
               located = [signed |-> signed, v |-> v, called |-> FALSE,
                          key |-> 0, mask |-> 0, back |-> NoMember]

NextLocate == Locate

SpecLocate == InitLocate /\ [][NextLocate]_vars

\* ------------------------------------------------------ bitset: Add, Remove
\* The members added and removed are the signed numbers -MaxMember..MaxMember
\* and the unsigned numbers 0..MaxMember.
BitMembers ==
    [signed : {TRUE}, v : (-MaxMember)..MaxMember]
        \cup [signed : {FALSE}, v : 0..MaxMember]

\* the operators |, & and ^ on bitchunks
RECURSIVE bit_or(_, _)
bit_or(a, b) ==
    IF a = 0 THEN b
    ELSE IF b = 0 THEN a
    ELSE (2 * bit_or(a \div 2, b \div 2)) + (IF (a % 2) + (b % 2) > 0 THEN 1 ELSE 0)

RECURSIVE bit_and(_, _)
bit_and(a, b) ==
    IF a = 0 \/ b = 0 THEN 0
    ELSE (2 * bit_and(a \div 2, b \div 2)) + ((a % 2) * (b % 2))

bit_not(a) == ((2 ^ bitchunkSZ) - 1) - a

\* this.bits[key]: the zero value for a key the map does not hold
chunk_at(bits, key) == IF key \in DOMAIN bits THEN bits[key] ELSE 0

\* this.bits[key] = chunk
chunk_put(bits, key, chunk) ==
    [k \in (DOMAIN bits) \cup {key} |-> IF k = key THEN chunk ELSE bits[k]]

\* this.bits[key] = chunk, false: the key is deleted
chunk_delete(bits, key) == [k \in (DOMAIN bits) \ {key} |-> bits[k]]

bitset_Make == [bitcount |-> 0, bits |-> [k \in {} |-> 0]]

bitset_Add_counts_every_call(this, member) ==
    LET loc == ibitlocation(member)
        bits == bit_or(chunk_at(this.bits, loc.key), loc.mask)
    IN  [bitcount |-> uint64(this.bitcount + 1),
         bits |-> chunk_put(this.bits, loc.key, bits)]

bitset_Add(this, member) ==
    LET loc == ibitlocation(member)
        bits == bit_or(chunk_at(this.bits, loc.key), loc.mask)
    IN  [bitcount |-> IF bits # chunk_at(this.bits, loc.key)
                      THEN uint64(this.bitcount + 1) ELSE this.bitcount,
         bits |-> chunk_put(this.bits, loc.key, bits)]

bitset_Remove(this, member) ==
    LET loc == ibitlocation(member)
        bits == bit_and(chunk_at(this.bits, loc.key), bit_not(loc.mask))
    IN  [bitcount |-> IF bits # chunk_at(this.bits, loc.key)
                      THEN uint64(this.bitcount - 1) ELSE this.bitcount,
         bits |-> IF bits # 0 THEN chunk_put(this.bits, loc.key, bits)
                  ELSE chunk_delete(this.bits, loc.key)]

bitset_Has(this, member) ==
    LET loc == ibitlocation(member)
    IN  bit_and(chunk_at(this.bits, loc.key), loc.mask) # 0

bitset_Cardinality(this) == this.bitcount

\* bset.set is the Set; bset.members are the numbers added and not removed
\* since, and bset.last is the call made last, with whether its member was in
\* the Set and what Cardinality() was before it.
BitsetAdd(member) ==
    /\ bset # NoBitSet
    /\ bset' = [set |-> bitset_Add(bset.set, member),
                members |-> bset.members \cup {member.v},
                last |-> [op |-> "Add", member |-> member,
                          present |-> member.v \in bset.members,
                          before |-> bitset_Cardinality(bset.set)]]
    /\ UNCHANGED <<root, count, keep_duplicates, pc, last, iter, heap, trees, sets, out,
                   compared, located, recs, bitsets, sorting>>

BitsetRemove(member) ==
    /\ bset # NoBitSet
    /\ bset' = [set |-> bitset_Remove(bset.set, member),
                members |-> bset.members \ {member.v},
                last |-> [op |-> "Remove", member |-> member,
                          present |-> member.v \in bset.members,
                          before |-> bitset_Cardinality(bset.set)]]
    /\ UNCHANGED <<root, count, keep_duplicates, pc, last, iter, heap, trees, sets, out,
                   compared, located, recs, bitsets, sorting>>

\* bset := Make()
InitBitset ==
    /\ Make(TRUE)
    /\ iter = NoIter
    /\ heap = <<>>
    /\ trees = NoTrees
    /\ sets = NoSets
    /\ out = NoOut
    /\ compared = NotCompared
    /\ located = NotLocated
    /\ recs = <<>>
    /\ bitsets = NoBitsets
    /\ sorting = NotSorting
    /\ bset = [set |-> bitset_Make, members |-> {},
               last |-> [op |-> "Make", member |-> [signed |-> TRUE, v |-> 0],
                         present |-> FALSE, before |-> 0]]

NextBitset ==
    \/ \E member \in BitMembers : BitsetAdd(member)
    \/ \E member \in BitMembers : BitsetRemove(member)

SpecBitset == InitBitset /\ [][NextBitset]_vars

\* -------------------------------------------------------------------- sort
\* The slices and channels that are sorted hold at most MaxSortLen items of
\* the keys 1..MaxSortKey; the payload tells equal items apart.
SortItems == [key : 1..MaxSortKey, val : Vals]
SortInputs == UNION {[1..n -> SortItems] : n \in 0..MaxSortLen}

\* A Tree as a value: Make, Insert and Len as in the state machine above.
tree_Make(filtered) == [root |-> Nil, count |-> 0, keep_duplicates |-> ~filtered]

tree_Insert(tree, item) ==
    LET r == IF tree.keep_duplicates
             THEN [node |-> insert_keep_duplicates(tree.root, item), inserted |-> TRUE]
             ELSE insert(tree.root, item)
    IN  [tree EXCEPT !.root = [r.node EXCEPT !.red = FALSE],
                     !.count = IF r.inserted THEN @ + 1 ELSE @]

tree_Len(tree) == tree.count

\* for _, item := range slice { tree.Insert(item) }
RECURSIVE insert_all(_, _)
insert_all(tree, slice) ==
    IF slice = <<>> THEN tree
    ELSE insert_all(tree_Insert(tree, Head(slice)), Tail(slice))

slice_to_tree(slice, filtered) == insert_all(tree_Make(filtered), slice)

\* make([]Item, tree.Len()), then slice[i] = item for every item of the
\* traversal: an index past the end panics, an index never reached stays nil.
\* The result is [slice |-> the slice], or PANIC.
tree_to_slice(tree, order) ==
    LET items == iterate(tree.root, order)
    IN  IF Len(items) > tree_Len(tree) THEN PANIC
        ELSE [slice |-> [i \in 1..tree_Len(tree) |->
                             IF i <= Len(items) THEN items[i] ELSE Nil]]

SortSlice_filtered(slice) == tree_to_slice(slice_to_tree(slice, TRUE), IN_ORDER)

SortSlice(slice) == tree_to_slice(slice_to_tree(slice, FALSE), IN_ORDER)

\* the items a range loop over the unbuffered channel receives before it is
\* closed are the items the iterator sends, in order
chan_to_tree(received, filtered) == insert_all(tree_Make(filtered), received)

tree_to_chan(tree, order) ==
    chan_close(send_all(make_chan(tree_Len(tree)), iterate(tree.root, order)))

SortChan(received) == tree_to_chan(chan_to_tree(received, FALSE), IN_ORDER)

\* sorted := sort.SortSlice(slice)
SortSliceCall ==
    /\ sorting # NotSorting
    /\ ~sorting.called
    /\ sorting.op = "SortSlice"
    /\ LET sorted == SortSlice(sorting.input)
       IN  /\ sorting' = [sorting EXCEPT !.called = TRUE,
                                         !.sorted = IF sorted = PANIC THEN <<>>
                                                    ELSE sorted.slice]
           /\ pc' = IF sorted = PANIC THEN "panic" ELSE pc
    /\ UNCHANGED <<root, count, keep_duplicates, last, iter, heap, trees, sets, out,
                   compared, located, bset, recs, bitsets>>

\* sort.SortChan(slice.iterator()), then the range loop over the result
SortChanCall ==
    /\ sorting # NotSorting
    /\ ~sorting.called
    /\ sorting.op = "SortChan"
    /\ LET channel == SortChan(sorting.input)
       IN  /\ sorting' = [sorting EXCEPT !.called = TRUE,
                                         !.channel = channel,
                                         !.sorted = IF channel.closed THEN channel.buffer
                                                    ELSE <<>>]
           /\ pc' = IF channel.blocked THEN "blocked" ELSE pc
    /\ UNCHANGED <<root, count, keep_duplicates, last, iter, heap, trees, sets, out,
                   compared, located, bset, recs, bitsets>>

\* Any slice, handed to SortSlice, or sent down a channel handed to SortChan.
InitSort ==
    /\ Make(TRUE)
    /\ iter = NoIter
    /\ heap = <<>>
    /\ trees = NoTrees
    /\ sets = NoSets
    /\ out = NoOut
    /\ compared = NotCompared
    /\ located = NotLocated
    /\ bset = NoBitSet
    /\ recs = <<>>
    /\ bitsets = NoBitsets
    /\ \E op \in {"SortSlice", "SortChan"} :
           \E input \in SortInputs :
               sorting = [op |-> op, input |-> input, called |-> FALSE,
                          sorted |-> <<>>, channel |-> make_chan(0)]

NextSort ==
    \/ SortSliceCall
    \/ SortChanCall

SpecSort == InitSort /\ [][NextSort]_vars

\* ---------------------------------------------- the tree-backed bitset
\* The items of the tree are pointers to bitrecords: recs holds the records
\* by address, and an item is [key |-> the key of its record, val |-> its
\* address] (Precedes reads the key, which no code changes after allocation).
\* The trees are values: Tree.Copy clones every node, and the clone's item is
\* the same pointer.
BitKeys == 0..MaxBitKey
BitNumbers == 0..MaxBitNumber

\* &bitrecord{key, 0}, the record a look-up is made with (never stored)
probe(key) == [key |-> key, val |-> 0]

tree_Find(tree, item) == Find(tree.root, tree.count, item)

\* Tree.Delete: the tree afterwards, or PANIC
tree_Delete(tree, item) ==
    LET r == delete(tree.root, item)
    IN  IF r = PANIC THEN PANIC
        ELSE IF r.node = Nil THEN PANIC         \* this.root.red with this.root == nil
        ELSE [tree EXCEPT !.root = [r.node EXCEPT !.red = FALSE],
                          !.count = IF r.deleted THEN @ - 1 ELSE @]

tree_Copy(tree) ==
    [root |-> copy(tree.root), count |-> tree.count,
     keep_duplicates |-> tree.keep_duplicates]

makebitset == [bitcount |-> 0, bits |-> tree_Make(TRUE)]

\* bset.setBit(key, mask): the records and the bitset afterwards
setBit(rs, this, key, mask) ==
    LET f == tree_Find(this.bits, probe(key))
    IN  IF f.found
        THEN LET chunk == rs[f.entry.val].chunk
                 m == bit_or(mask, chunk)
             IN  IF m # chunk
                 THEN [recs |-> [rs EXCEPT ![f.entry.val].chunk = m],
                       bset |-> [this EXCEPT !.bitcount = uint64(@ + 1)]]
                 ELSE [recs |-> rs, bset |-> this]
        ELSE [recs |-> Append(rs, [key |-> key, chunk |-> mask]),
              bset |-> [bitcount |-> uint64(this.bitcount + 1),
                        bits |-> tree_Insert(this.bits,
                                             [key |-> key, val |-> Len(rs) + 1])]]

\* bset.clearBit(key, mask): the records and the bitset afterwards, or PANIC
clearBit(rs, this, key, mask) ==
    LET f == tree_Find(this.bits, probe(key))
    IN  IF ~f.found THEN [recs |-> rs, bset |-> this]
        ELSE LET chunk == rs[f.entry.val].chunk
                 newchunk == bit_and(chunk, bit_not(mask))
             IN  IF newchunk = chunk THEN [recs |-> rs, bset |-> this]
                 ELSE IF newchunk = 0
                 THEN LET t == tree_Delete(this.bits, probe(key))
                      IN  IF t = PANIC THEN PANIC
                          ELSE [recs |-> rs,
                                bset |-> [bitcount |-> uint64(this.bitcount - 1),
                                          bits |-> t]]
                 ELSE [recs |-> Append(rs, [key |-> key, chunk |-> newchunk]),
                       bset |-> [bitcount |-> uint64(this.bitcount - 1),
                                 bits |-> tree_Insert(this.bits,
                                                      [key |-> key, val |-> Len(rs) + 1])]]

getBit(rs, this, key, mask) ==
    LET f == tree_Find(this.bits, probe(key))
    IN  f.found /\ bit_and(rs[f.entry.val].chunk, mask) # 0

bitsetcopy(a) == [bitcount |-> a.bitcount, bits |-> tree_Copy(a.bits)]

\* the tree with every pointer p replaced by its position in live
RECURSIVE renumber(_, _)
renumber(node, live) ==
    IF node = Nil THEN Nil
    ELSE [node EXCEPT !.item.val = CHOOSE i \in 1..Len(live) : live[i] = node.item.val,
                      !.left = renumber(node.left, live),
                      !.right = renumber(node.right, live)]

\* the addresses of the records a tree points to
pointers(node) ==
    LET items == iterate_inorder(node)
    IN  [i \in 1..Len(items) |-> items[i].val]

\* The garbage collector: the records neither bitset points to are dropped,
\* and the others are numbered in the order the two trees reach them (the code
\* never compares or prints a pointer).
CollectRecords(rs, bs) ==
    LET live == Dedupe(pointers(bs.a.bits.root)
                       \o (IF bs.b = NoBitSet THEN <<>> ELSE pointers(bs.b.bits.root)))
        move(x) == [x EXCEPT !.bits.root = renumber(@, live)]
    IN  [recs |-> [i \in 1..Len(live) |-> rs[live[i]]],
         bitsets |-> [bs EXCEPT !.a = move(@),
                                !.b = IF @ = NoBitSet THEN @ ELSE move(@)]]

\* what a call leaves behind: r is [recs, bset] for the bitset which, or PANIC
Acted(op, which, key, bit, r) ==
    /\ pc' = IF r = PANIC THEN "panic" ELSE pc
    /\ LET gc == CollectRecords(IF r = PANIC THEN recs ELSE r.recs,
                                [bitsets EXCEPT ![which] = IF r = PANIC THEN @ ELSE r.bset,
                                                !.last = [op |-> op, which |-> which,
                                                          key |-> key, bit |-> bit]])
       IN  /\ recs' = gc.recs
           /\ bitsets' = gc.bitsets
    /\ UNCHANGED <<root, count, keep_duplicates, last, iter, heap, trees, sets, out,
                   compared, located, bset, sorting>>

SetBitCall(which, key, bit) ==
    /\ pc = "ready"
    /\ bitsets # NoBitsets
    /\ bitsets[which] # NoBitSet
    /\ Acted("setBit", which, key, bit,
             setBit(recs, bitsets[which], key, shift_one(bit)))

ClearBitCall(which, key, bit) ==
    /\ pc = "ready"
    /\ bitsets # NoBitsets
    /\ bitsets[which] # NoBitSet
    /\ Acted("clearBit", which, key, bit,
             clearBit(recs, bitsets[which], key, shift_one(bit)))

\* b := bitsetcopy(a)
BitsetCopyCall ==
    /\ pc = "ready"
    /\ bitsets # NoBitsets
    /\ bitsets.b = NoBitSet
    /\ bitsets' = [bitsets EXCEPT !.b = bitsetcopy(bitsets.a),
                                  !.last = [op |-> "bitsetcopy", which |-> "b",
                                            key |-> 0, bit |-> 0]]
    /\ UNCHANGED <<root, count, keep_duplicates, pc, last, iter, heap, trees, sets, out,
                   compared, located, bset, recs, sorting>>

\* a := makebitset()
InitBitsets ==
    /\ Make(TRUE)
    /\ iter = NoIter
    /\ heap = <<>>
    /\ trees = NoTrees
    /\ sets = NoSets
    /\ out = NoOut
    /\ compared = NotCompared
    /\ located = NotLocated
    /\ bset = NoBitSet
    /\ sorting = NotSorting
    /\ recs = <<>>
    /\ bitsets = [a |-> makebitset, b |-> NoBitSet,
                  last |-> [op |-> "makebitset", which |-> "a", key |-> 0, bit |-> 0]]

NextBitsets ==
    \/ \E which \in {"a", "b"}, key \in BitKeys, bit \in BitNumbers :
           SetBitCall(which, key, bit)
    \/ \E which \in {"a", "b"}, key \in BitKeys, bit \in BitNumbers :
           ClearBitCall(which, key, bit)
    \/ BitsetCopyCall

SpecBitsets == InitBitsets /\ [][NextBitsets]_vars

\* ------------------------------------------------- the eagerly filled channels
\* Either a Set is built by Add and Remove and IterAsync is called on it, or
\* the items of a channel are handed to SortChan.
InitAsync ==
    \/ InitSets
    \/ InitSort /\ sorting.op = "SortChan"

NextAsync ==
    \/ sets # NoSets /\ out.op \in {"none", "Add", "Remove"} /\
           \E item \in SetItems : SetAdd("A", item)
    \/ sets # NoSets /\ out.op \in {"none", "Add", "Remove"} /\
           \E item \in SetItems : SetRemove("A", item)
    \/ sets # NoSets /\ out.op \in {"none", "Add", "Remove"} /\ IterAsyncCall
    \/ SortChanCall

SpecAsync == InitAsync /\ [][NextAsync]_vars

\* ------------------------------------------------- measures of a (sub)tree
RECURSIVE Size(_)
Size(node) == IF node = Nil THEN 0 ELSE 1 + Size(node.left) + Size(node.right)

RECURSIVE ItemsOf(_)
ItemsOf(node) ==
    IF node = Nil THEN {} ELSE {node.item} \cup ItemsOf(node.left) \cup ItemsOf(node.right)

\* left, node, right
RECURSIVE InOrder(_)
InOrder(node) ==
    IF node = Nil THEN <<>> ELSE InOrder(node.left) \o <<node.item>> \o InOrder(node.right)

RECURSIVE IsBST(_)
IsBST(node) ==
    \/ node = Nil
    \/ /\ \A x \in ItemsOf(node.left) : ~Precedes(node.item, x)
       /\ \A x \in ItemsOf(node.right) : ~Precedes(x, node.item)
       /\ IsBST(node.left)
       /\ IsBST(node.right)

RECURSIVE LeftLeaning(_)
LeftLeaning(node) ==
    \/ node = Nil
    \/ /\ ~is_red(node.right)
       /\ ~(node.red /\ is_red(node.left))
       /\ LeftLeaning(node.left)
       /\ LeftLeaning(node.right)

\* The numbers of black nodes met on the paths from node to an absent link.
RECURSIVE BlackCounts(_)
BlackCounts(node) ==
    IF node = Nil THEN {0}
    ELSE {n + (IF node.red THEN 0 ELSE 1) :
             n \in BlackCounts(node.left) \cup BlackCounts(node.right)}

BlackBalanced(node) == Cardinality(BlackCounts(node)) = 1

\* The last call was an Insert, or a Delete of an item that was stored in a
\* tree of at least two items (so that the tree is not emptied), and it has
\* returned.
Mutated ==
    /\ pc = "ready"
    /\ \/ last.op = "Insert"
       \/ last.op = "Delete" /\ last.present /\ last.count >= 2

\* ------------------------------------------------------------------ claims

\* C1: from the empty tree, after every Insert and after every Delete of a
\* present item that leaves the tree non-empty (either duplicate policy), the
\* tree is in binary-search-tree order: for every
\* node, no item of its left subtree is preceded by the node's item and no
\* item of its right subtree precedes it.
C1_SearchTreeOrder == Mutated => IsBST(root)

C1_Witness ==
    /\ last.op = "Delete" /\ last.present /\ pc = "ready"
    /\ Size(root) >= 3 /\ root.left # Nil /\ root.right # Nil

\* C2: after every completed Insert and every completed Delete of a present
\* item that leaves the tree non-empty, no node has a red right child and no
\* red node has a red left child.
C2_LeftLeaning == Mutated => LeftLeaning(root)

C2_Witness ==
    /\ last.op = "Delete" /\ last.present /\ pc = "ready"
    /\ Size(root) >= 4 /\ root.left # Nil /\ is_red(root.left.left)

\* C3: after every completed Insert and every completed Delete of a present
\* item that leaves the tree non-empty, every path from the root to an absent
\* link holds the same number of black nodes (Delete never colours the root
\* red before it descends).
C3_BlackBalance == Mutated => BlackBalanced(root)

\* a Delete from a tree whose root had two black children has returned
C3_Witness ==
    /\ last.op = "Delete" /\ last.present /\ pc = "ready"
    /\ last.count >= 3 /\ Size(root) = last.count - 1

\* C4: after any Insert or Delete that completes, the tree has a root and the
\* root is black.
C4_RootBlack ==
    (last.op \in {"Insert", "Delete"} /\ pc = "ready") => (root # Nil /\ ~root.red)

C4_Witness ==
    /\ last.op = "Insert" /\ pc = "ready" /\ Size(root) >= 2 /\ is_red(root.left)

\* C5: in a filtering tree, after any sequence of completed Inserts and
\* Deletes, count equals the number of nodes, which equals the number of
\* distinct items stored; an Insert raises count by exactly 1 when no equal
\* item was stored and leaves it unchanged when one was.
C5_FilteringCount ==
    (~keep_duplicates /\ pc = "ready") =>
        /\ TreeLen = Size(root)
        /\ TreeLen = Cardinality({i.key : i \in ItemsOf(root)})
        /\ last.op = "Insert" =>
               TreeLen = last.count + (IF last.present THEN 0 ELSE 1)

\* an Insert of an item whose key was stored already, into a tree of three
C5_Witness ==
    /\ ~keep_duplicates /\ pc = "ready"
    /\ last.op = "Insert" /\ last.present /\ count >= 3

\* C6: in a duplicate-preserving tree every Insert raises count by exactly 1,
\* also when an equal item is stored, and after any sequence of completed
\* operations count equals the number of nodes.
C6_DuplicateCount ==
    (keep_duplicates /\ pc = "ready") =>
        /\ TreeLen = Size(root)
        /\ last.op = "Insert" => TreeLen = last.count + 1

\* C7: immediately after Insert(x), in either policy, Find(x) reports found and
\* returns an item equal to x (neither precedes the other).
C7_InsertThenFind ==
    (last.op = "Insert" /\ pc = "ready") =>
        LET f == Find(root, count, last.item)
        IN  f.found /\ f.entry # Nil /\ Equal(f.entry, last.item)

\* x went to the bottom of a tree of at least four items
C7_Witness ==
    /\ last.op = "Insert" /\ pc = "ready" /\ count >= 4
    /\ Find(root, count, last.item).comparisons >= 3

\* The sequence s without the items equal to x.
Without(s, x) == SelectSeq(s, LAMBDA i : ~Equal(i, x))

\* The step of C8: what a Delete of a stored item does to a filtering tree of
\* at least two items.
C8_DeleteStep ==
    (last'.op = "Delete" /\ ~keep_duplicates /\ last'.present /\ count >= 2) =>
        /\ pc' = "ready"
        /\ ~Find(root', count', last'.item).found
        /\ count' = count - 1
        /\ \A i \in ItemsOf(root) :
               ~Equal(i, last'.item) => Find(root', count', i).entry = i
        /\ InOrder(root') = Without(InOrder(root), last'.item)

\* C8: in a filtering tree that holds x and at least one other item, Delete(x)
\* completes; afterwards Find(x) reports not found, Len is one less, every
\* other stored item is still found, and the in-order sequence is the
\* previous one with x removed.
C8_DeletePresent == [][C8_DeleteStep]_vars

\* a Delete from a filtering tree of at least four items has returned
C8_Witness ==
    /\ ~keep_duplicates /\ pc = "ready"
    /\ last.op = "Delete" /\ last.present /\ last.count >= 4
    /\ ~Find(root, count, last.item).found

\* The step of C9: a Delete of an item that is not stored in a non-empty tree.
C9_DeleteAbsentStep ==
    (last'.op = "Delete" /\ ~last'.present /\ count >= 1) =>
        /\ pc' = "ready"
        /\ count' = count
        /\ InOrder(root') = InOrder(root)

\* C9: deleting an item that is not in a non-empty tree is a no-op: Delete
\* returns normally, no node is removed, count is unchanged and the in-order
\* sequence of stored items is unchanged.
C9_DeleteAbsent == [][C9_DeleteAbsentStep]_vars

\* C10: on an empty tree (count 0, root absent) Find reports not found without
\* comparing anything, and Delete returns normally and leaves the tree empty.
C10_EmptyTree ==
    /\ (pc = "ready" /\ count = 0 /\ root = Nil) =>
           \A i \in Items :
               LET f == Find(root, count, i)
               IN  ~f.found /\ f.entry = Nil /\ f.comparisons = 0
    /\ (last.op = "Delete" /\ last.count = 0) =>
           (pc = "ready" /\ count = 0 /\ root = Nil)

\* C11: under the filtering policy, Insert(y) when an item equal to y is
\* stored overwrites the stored item with y: no node is added, count is
\* unchanged, and a following Find returns y itself (payload included).
C11_LastWriteWins ==
    (~keep_duplicates /\ pc = "ready" /\ last.op = "Insert" /\ last.present) =>
        /\ count = last.count
        /\ Size(root) = last.count
        /\ Find(root, count, last.item).entry = last.item

\* the overwritten item is below the root of a tree of at least three
C11_Witness ==
    /\ ~keep_duplicates /\ pc = "ready" /\ last.op = "Insert" /\ last.present
    /\ count >= 3 /\ Find(root, count, last.item).comparisons >= 2

\* max_depth of the tests: the nodes on the longest path from node down
RECURSIVE max_depth(_)
max_depth(node) ==
    IF node = Nil THEN 0
    ELSE LET ld == max_depth(node.left)
             rd == max_depth(node.right)
         IN  IF ld > rd THEN ld + 1 ELSE rd + 1

\* ceil(log2(n)) for n >= 1
RECURSIVE CeilLog2(_)
CeilLog2(n) == IF n <= 1 THEN 0 ELSE 1 + CeilLog2((n + 1) \div 2)

\* C12: after N insertions and no deletion into a filtering tree, in whatever
\* order the items arrive, the tree is at most 2*ceil(log2(N+1)) nodes deep
\* (N taken as the number of items stored, which no number of insertions is
\* below), and at most 2n deep when it holds 2^n items, n >= 1, as the tests
\* assert.
C12_Depth ==
    /\ max_depth(root) <= 2 * CeilLog2(count + 1)
    /\ \A n \in 1..MaxDepthKey : count = 2 ^ n => max_depth(root) <= 2 * n

\* seven items are stored, the last insertion was not of the largest
C12_Witness ==
    /\ ~keep_duplicates /\ count >= 7 /\ last.op = "Insert"
    /\ last.item.key < MaxDepthKey /\ max_depth(root) >= 3

\* The sequence s back to front.
Reversed(s) == [i \in 1..Len(s) |-> s[Len(s) + 1 - i]]

\* C13: for the tree built by any sequence of completed calls (either
\* policy), no item delivered by Iter(IN_ORDER) precedes the one delivered
\* before it, no item delivered by Iter(REVERSE_ORDER) is preceded by the one
\* delivered before it, and the reverse-order sequence is the in-order
\* sequence reversed.
C13_OrderedTraversal ==
    pc = "ready" =>
        LET s == iterate(root, IN_ORDER)
            r == iterate(root, REVERSE_ORDER)
        IN  /\ \A i \in 1..(Len(s) - 1) : ~Precedes(s[i + 1], s[i])
            /\ \A i \in 1..(Len(r) - 1) : ~Precedes(r[i], r[i + 1])
            /\ Len(s) = Size(root)
            /\ r = Reversed(s)

\* a duplicate-preserving tree of four items, two of them equal
C13_Witness ==
    /\ keep_duplicates /\ pc = "ready" /\ last.op = "Insert" /\ last.present
    /\ Size(root) >= 4 /\ Cardinality({i.key : i \in ItemsOf(root)}) >= 3

\* What the requested order requires of the delivered sequence s.
InRequestedOrder(s, node, order) ==
    CASE order = IN_ORDER      -> s = InOrder(node)
      [] order = REVERSE_ORDER -> s = Reversed(InOrder(node))
      [] order = PRE_ORDER     -> node # Nil => s[1] = node.item
      [] order = POST_ORDER    -> node # Nil => s[Len(s)] = node.item

\* C14 (what has been delivered when the channel is closed): for every tree
\* and each of the four orders, once the producer has closed the channel the
\* consumer has received exactly Len() items, the item of each stored node
\* exactly once, in the requested order; an item is only ever delivered on an
\* open channel, so the channel is not closed before the last delivery.
C14_Traversal ==
    (iter # NoIter /\ iter.closed) =>
        /\ Len(iter.received) = TreeLen
        /\ Len(iter.received) = Size(root)
        /\ \A x \in IterItems :
               Len(SelectSeq(iter.received, LAMBDA i : i = x)) =
               Len(SelectSeq(InOrder(root), LAMBDA i : i = x))
        /\ InRequestedOrder(iter.received, root, iter.order)
        /\ iter.sent = Len(iter.received)

\* The same as C14_Traversal without the comparison with Len(): what the
\* traversal delivers, measured on the nodes of the tree.
C14_DeliversEveryNode ==
    (iter # NoIter /\ iter.closed) =>
        /\ Len(iter.received) = Size(root)
        /\ \A x \in IterItems :
               Len(SelectSeq(iter.received, LAMBDA i : i = x)) =
               Len(SelectSeq(InOrder(root), LAMBDA i : i = x))
        /\ InRequestedOrder(iter.received, root, iter.order)
        /\ iter.sent = Len(iter.received)

\* Under SpecIterFair every traversal that is started ends: the producer
\* closes the channel and the consumer's loop ends.
C14_Terminates == (iter # NoIter) ~> (iter # NoIter /\ iter.closed /\ iter.done)

\* a traversal of a tree of three nodes has delivered everything and closed
C14_Witness ==
    /\ iter # NoIter /\ iter.closed /\ Len(iter.received) >= 3
    /\ iter.order = POST_ORDER

\* What a caller can observe of the tree this in the heap h: its policy, its
\* Len, its in-order sequence and the result of Find for every item.
View(h, this) ==
    LET node == Load(h, this.root)
    IN  [keep_duplicates |-> this.keep_duplicates,
         count |-> this.count,
         items |-> InOrder(node),
         finds |-> [item \in CopyItems |->
                       LET f == Find(node, this.count, item)
                       IN  [entry |-> f.entry, found |-> f.found]]]

\* The step of C15.
C15_CopyStep ==
    /\ trees'.acted = "Copy" =>
           /\ View(heap', trees'.c) = View(heap, trees.t)
           /\ View(heap', trees'.t) = View(heap, trees.t)
    /\ (trees'.acted = "c" /\ pc' = "ready") =>
           View(heap', trees'.t) = View(heap, trees.t)
    /\ (trees'.acted = "t" /\ pc' = "ready" /\ trees.c # NoTree) =>
           View(heap', trees'.c) = View(heap, trees.c)

\* C15: Copy returns a tree with the policy, the count and the items of the
\* tree copied, and afterwards no completed Insert or Delete on the copy
\* changes the in-order sequence, the Len or a Find result of the original,
\* and none on the original changes those of the copy.
C15_CopyIndependent == [][C15_CopyStep]_vars

\* the copy of a tree of two items was mutated and now differs from it
C15_Witness ==
    /\ trees.acted = "c" /\ pc = "ready"
    /\ trees.t.count >= 2
    /\ InOrder(Load(heap, trees.c.root)) # InOrder(Load(heap, trees.t.root))

\* The items of the sequence s that are equal to x.
Only(s, x) == SelectSeq(s, LAMBDA i : Equal(i, x))

\* The step of C16: a Delete(x) from a duplicate-preserving tree that holds
\* at least two items equal to x.
C16_DeleteStep ==
    (/\ last'.op = "Delete"
     /\ keep_duplicates
     /\ Len(Only(InOrder(root), last'.item)) >= 2) =>
        /\ pc' = "ready"
        /\ count' = count - 1
        /\ Len(Only(InOrder(root'), last'.item)) =
               Len(Only(InOrder(root), last'.item)) - 1
        /\ Find(root', count', last'.item).found
        /\ Without(InOrder(root'), last'.item) = Without(InOrder(root), last'.item)

\* C16: in a duplicate-preserving tree that holds k >= 2 items equal to x, one
\* Delete(x) removes exactly one of them: Len decreases by exactly 1, k-1
\* items equal to x remain, Find(x) still reports found, and all items not
\* equal to x remain.
C16_DeleteOneDuplicate == [][C16_DeleteStep]_vars

\* C17: when Union(A, B) has returned, its Cardinality is that of A plus that
\* of B minus that of Intersection(A, B); when A and B are disjoint it is the
\* sum of the two.
C17_UnionCardinality ==
    (pc = "ready" /\ out.op = "Union") =>
        LET i == Intersection(heap, sets.A, sets.B)
            d == Disjoint(heap, sets.A, sets.B)
        IN  /\ i # PANIC
            /\ d # PANIC
            /\ Set_Cardinality(sets.R) =
                   Set_Cardinality(sets.A) + Set_Cardinality(sets.B) - Set_Cardinality(i.set)
            /\ d.is => Set_Cardinality(sets.R) =
                           Set_Cardinality(sets.A) + Set_Cardinality(sets.B)

\* the union of two sets of two items that share one
C17_Witness ==
    /\ pc = "ready" /\ out.op = "Union"
    /\ Set_Cardinality(sets.A) = 2 /\ Set_Cardinality(sets.B) = 2
    /\ Set_Cardinality(sets.R) = 3

\* C18: when Disjoint(A, B) or Intersect(A, B) has returned, Disjoint(A, B)
\* is true exactly when Intersect(A, B) is false, and each gives the same
\* answer for (B, A); empty sets and sets of equal cardinality included.
C18_DisjointIntersect ==
    (pc = "ready" /\ out.op \in {"Disjoint", "Intersect"}) =>
        LET d == Disjoint(heap, sets.A, sets.B)
            x == Intersect(heap, sets.A, sets.B)
            dBA == Disjoint(heap, sets.B, sets.A)
            xBA == Intersect(heap, sets.B, sets.A)
        IN  /\ PANIC \notin {d, x, dBA, xBA}
            /\ out.is = (IF out.op = "Disjoint" THEN d.is ELSE x.is)
            /\ d.is <=> ~x.is
            /\ x.is = xBA.is
            /\ d.is = dBA.is

\* two different sets of two items each, which share their larger item
C18_Witness ==
    /\ pc = "ready" /\ out.op = "Disjoint" /\ ~out.is
    /\ Set_Cardinality(sets.A) = 2 /\ Set_Cardinality(sets.B) = 2
    /\ LET a == Set_Iter(heap, sets.A)
           b == Set_Iter(heap, sets.B)
       IN  a[1] # b[1] /\ a[2] = b[2]

\* What a caller can observe of the Set this in the heap h.
SetView(h, this) ==
    [count |-> Set_Cardinality(this),
     items |-> Set_Iter(h, this),
     has |-> [i \in SetItems |-> Set_Has(h, this, i)]]

\* The step of C19.
C19_UnionStep ==
    (out'.op = "Union" /\ pc' = "ready") =>
        /\ \A i \in SetItems :
               Set_Has(heap', sets'.R, i) =
               [has |-> Set_Has(heap, sets.A, i).has \/ Set_Has(heap, sets.B, i).has]
        /\ SetView(heap', sets'.A) = SetView(heap, sets.A)
        /\ SetView(heap', sets'.B) = SetView(heap, sets.B)

\* C19: the Set that Union(A, B) returns has an item exactly when A has it
\* or B has it, and the call leaves A and B with the members and the
\* cardinality they had.
C19_UnionMembers == [][C19_UnionStep]_vars

\* a union that holds more items than either operand
C19_Witness ==
    /\ pc = "ready" /\ out.op = "Union"
    /\ Set_Cardinality(sets.A) >= 2 /\ Set_Cardinality(sets.B) >= 1
    /\ Set_Cardinality(sets.R) > Set_Cardinality(sets.A)
    /\ Set_Cardinality(sets.R) > Set_Cardinality(sets.B)
    /\ \E i, j \in SetItems :
           /\ Typeof(i) # Typeof(j)
           /\ Set_Has(heap, sets.R, i).has /\ Set_Has(heap, sets.R, j).has

Sign(n) == IF n < 0 THEN -1 ELSE IF n > 0 THEN 1 ELSE 0

\* C20: for two items of different types cmp_type is not zero, cmp_type of
\* the two the other way round has the opposite sign, and compare_item does
\* not reach the call of Precedes on an item of another type; this for every
\* pair of distinct types, those that share package path and name included.
C20_TypeOrder ==
    (compared # NotCompared /\ compared.called /\ Typeof(compared.a) # Typeof(compared.b)) =>
        /\ compared.ab # 0
        /\ Sign(compared.ab) = -Sign(compared.ba)
        /\ compared.item # PANIC

\* The same for the types that differ in package path or in name.
C20_NamedTypeOrder ==
    (/\ compared # NotCompared
     /\ compared.called
     /\ \/ Typeof(compared.a).pkg # Typeof(compared.b).pkg
        \/ Typeof(compared.a).name # Typeof(compared.b).name) =>
        /\ compared.ab # 0
        /\ Sign(compared.ab) = -Sign(compared.ba)
        /\ compared.item # PANIC

\* Every int64 and every uint64, as a member of a bitset.
Members == [signed : {TRUE}, v : Int64] \cup [signed : {FALSE}, v : Uint64]

\* C21: the location functions give every signed number (the least one
\* included) and every unsigned number a mask of exactly one bit, decoding
\* the key and the number of that bit gives the number back (as an int64 when
\* it is negative and as a uint64 otherwise), and no other integer has the
\* same key and bit.
C21_KeyMapping ==
    (located # NotLocated /\ located.called) =>
        /\ bitcount(located.mask) = 1
        /\ located.back.val = located.v
        /\ located.back.type = (IF located.v < 0 THEN "int64" ELSE "uint64")
        /\ \A m \in Members :
               m.v # located.v =>
                   ibitlocation(m) # [key |-> located.key, mask |-> located.mask]

C21_Witness ==
    /\ located # NotLocated
    /\ located.called
    /\ located.signed
    /\ located.v = -(IntSZ \div 2)
    /\ located.back = [type |-> "int64", val |-> located.v]

\* the number of the one bit of the mask
Offset == getbits(located.mask)[1]

RECURSIVE count_bits(_)
count_bits(bits) ==
    IF DOMAIN bits = {} THEN 0
    ELSE LET key == CHOOSE k \in DOMAIN bits : TRUE
         IN  bitcount(bits[key]) + count_bits(chunk_delete(bits, key))

\* C22: after any sequence of Add and Remove on a Set from Make(),
\* Cardinality() is the number of bits set over all chunks and the number of
\* distinct members; an Add of a member that is present and a Remove of one
\* that is absent leave it as it was.
C22_Cardinality ==
    bset # NoBitSet =>
        /\ bitset_Cardinality(bset.set) = count_bits(bset.set.bits)
        /\ bitset_Cardinality(bset.set) = Cardinality(bset.members)
        /\ \A m \in BitMembers : bitset_Has(bset.set, m) <=> m.v \in bset.members
        /\ (bset.last.op = "Add" /\ bset.last.present) =>
               bitset_Cardinality(bset.set) = bset.last.before
        /\ (bset.last.op = "Remove" /\ ~bset.last.present) =>
               bitset_Cardinality(bset.set) = bset.last.before

C22_Witness ==
    /\ bset # NoBitSet
    /\ bset.last.op = "Add"
    /\ bset.last.present
    /\ bset.last.member = [signed |-> FALSE, v |-> 1]
    /\ bset.members = {-1, 1, bitchunkSZ}
    /\ bitset_Cardinality(bset.set) = 3

\* the items of s with the key k, in the order of s
WithKey(s, k) == SelectSeq(s, LAMBDA x : x.key = k)

\* the number of times item x occurs in s
Occurrences(s, x) == Cardinality({i \in 1..Len(s) : s[i] = x})

\* C23: SortSlice returns a slice of the length of its input that holds the
\* same items (duplicates kept) in non-decreasing order, and the channel
\* SortChan returns yields the same for the items received until the input
\* channel was closed.
C23_SortedPermutation ==
    (sorting # NotSorting /\ sorting.called) =>
        /\ pc = "ready"
        /\ Len(sorting.sorted) = Len(sorting.input)
        /\ \A x \in SortItems :
               Occurrences(sorting.sorted, x) = Occurrences(sorting.input, x)
        /\ \A i \in 1..(Len(sorting.sorted) - 1) :
               ~Precedes(sorting.sorted[i + 1], sorting.sorted[i])
        /\ sorting.op = "SortChan" => sorting.channel.closed

C23_Witness ==
    /\ sorting # NotSorting
    /\ sorting.called
    /\ sorting.op = "SortChan"
    /\ sorting.input = <<[key |-> 2, val |-> "a"], [key |-> 1, val |-> "a"],
                         [key |-> 2, val |-> "a"]>>
    /\ sorting.sorted = <<[key |-> 1, val |-> "a"], [key |-> 2, val |-> "a"],
                          [key |-> 2, val |-> "a"]>>

\* C30: SortSlice is stable: the items that compare equal come out in the
\* order they had in the input.
C30_Stable ==
    (sorting # NotSorting /\ sorting.called /\ sorting.op = "SortSlice") =>
        \A k \in 1..MaxSortKey :
            WithKey(sorting.sorted, k) = WithKey(sorting.input, k)

C30_Witness ==
    /\ sorting # NotSorting
    /\ sorting.called
    /\ sorting.op = "SortSlice"
    /\ sorting.input = <<[key |-> 2, val |-> "b"], [key |-> 1, val |-> "b"],
                         [key |-> 2, val |-> "a"], [key |-> 1, val |-> "a"]>>
    /\ sorting.sorted = <<[key |-> 1, val |-> "b"], [key |-> 1, val |-> "a"],
                          [key |-> 2, val |-> "b"], [key |-> 2, val |-> "a"]>>

\* C24: deleting the only item of a one-item tree returns normally and leaves
\* the empty tree (root absent, count 0), in which the item is not found.
C24_DeleteOnlyItem ==
    (last.op = "Delete" /\ last.present /\ last.count = 1) =>
        /\ pc = "ready"
        /\ root = Nil
        /\ count = 0
        /\ ~Find(root, count, last.item).found

\* C27: Set.Precedes meets the requirements on an Item: when a.Precedes(b)
\* then b.Precedes(a) is false, a.Precedes(a) is false, and two Sets of the
\* same members do not precede each other.
C27_PrecedesStrict ==
    (out.op = "Precedes" /\ pc = "ready") =>
        /\ out.is => ~Set_Precedes(heap, sets.B, sets.A).is
        /\ ~Set_Precedes(heap, sets.A, sets.A).is
        /\ Set_Iter(heap, sets.A) = Set_Iter(heap, sets.B) => ~out.is

\* the function has returned inside its loop and the iterator has items left
Abandoned == iter # NoIter /\ iter.returned /\ iter.received < Len(iter.items)

\* C25: when Intersect, Disjoint or Subset returns inside its range loop while
\* the iterator has items left, the goroutine behind Iter() never reaches
\* close(c): once it has arrived at its next send it can take no further step.
C25_ProducerLeaks ==
    Abandoned =>
        /\ ~iter.closed
        /\ ~ENABLED SetIterClose
        /\ ~ENABLED SetIterReceive
        /\ iter.sent > iter.received => ~ENABLED SetIterSend

C25_Witness ==
    /\ Abandoned
    /\ iter.fn = "Intersect"
    /\ out = [op |-> "Intersect", is |-> TRUE]
    /\ iter.received = 1
    /\ iter.sent = 2
    /\ Len(iter.items) = 3

\* C29: for every Set that Add and Remove can reach, IterAsync sends exactly
\* Cardinality() items into a channel of that capacity and returns with no
\* receiver running, and the closed channel holds every member once, in
\* order; tree_to_chan of the sort package does the same with a channel of
\* capacity Len().
C29_EagerNeverBlocks ==
    /\ (sets # NoSets /\ out.op = "IterAsync") =>
           /\ pc = "ready"
           /\ ~out.channel.blocked
           /\ out.channel.closed
           /\ out.channel.capacity = Set_Cardinality(sets.A)
           /\ Len(out.channel.buffer) = Set_Cardinality(sets.A)
           /\ \A x \in SetItems :
                  Occurrences(out.channel.buffer, x)
                      = (IF Set_Has(heap, sets.A, x).has THEN 1 ELSE 0)
           /\ \A i \in 1..(Len(out.channel.buffer) - 1) :
                  compare_item(out.channel.buffer[i], out.channel.buffer[i + 1]).cmp < 0
    /\ (sorting # NotSorting /\ sorting.called /\ sorting.op = "SortChan") =>
           /\ pc = "ready"
           /\ ~sorting.channel.blocked
           /\ sorting.channel.closed
           /\ sorting.channel.capacity = Len(sorting.input)
           /\ Len(sorting.channel.buffer) = Len(sorting.input)

C29_Witness ==
    /\ sets # NoSets
    /\ out.op = "IterAsync"
    /\ out.after = "Remove"
    /\ Set_Cardinality(sets.A) = 2
    /\ out.channel.closed
    /\ Len(out.channel.buffer) = 2

\* the bits getBit reports set
BitsOf(rs, x) ==
    {kb \in BitKeys \X BitNumbers : getBit(rs, x, kb[1], shift_one(kb[2]))}

\* the bits set in the records the tree of x points to, added up
RECURSIVE sum_bits(_, _)
sum_bits(rs, p) ==
    IF p = <<>> THEN 0 ELSE bitcount(rs[Head(p)].chunk) + sum_bits(rs, Tail(p))

TheOther(which) == IF which = "a" THEN "b" ELSE "a"

\* C28: after b := bitsetcopy(a), a setBit or clearBit on one of the two leaves
\* every getBit result of the other as it was, and the other's bitcount is the
\* number of bits set in its records.
C28_CopyIndependent ==
    [][(/\ bitsets # NoBitsets
        /\ bitsets.b # NoBitSet
        /\ pc' = "ready"
        /\ bitsets'.last.op \in {"setBit", "clearBit"})
       => LET o == TheOther(bitsets'.last.which)
          IN  /\ BitsOf(recs', bitsets'[o]) = BitsOf(recs, bitsets[o])
              /\ bitsets[o].bitcount = sum_bits(recs, pointers(bitsets[o].bits.root))
                     => bitsets'[o].bitcount
                            = sum_bits(recs', pointers(bitsets'[o].bits.root))]_vars

====
